---- MODULE Spec2Model ----
(***************************************************************************)
(* Access-controlled query layer and access grant store of the sentiment   *)
(* backend: the user_post_access table, the Post / Comment / Sentiment     *)
(* repositories' access predicates and readers, the routes that wrap them, *)
(* and the AccessService grant, revoke and bulk-grant operations.          *)
(*                                                                         *)
(* A list reader's result is a multiset of row ids (row id -> number of    *)
(* rows the SQL join produces for it), so a join that duplicates or leaks  *)
(* rows is visible in the model.                                           *)
(***************************************************************************)
EXTENDS Integers, Sequences, FiniteSets, TLC

VARIABLES
    pages,             \* table pages: page id -> [inserted_at]
    users,             \* table users (scraped identities): the set of user ids
    posts,             \* table posts: post id -> [page_id, posted_at, inserted_at]
    comments,          \* table comments: comment id -> [post_id, user_id]
    sentiments,        \* table sentiments: sentiment id -> [post_id, comment_id,
                       \*   sentiment_category, confidence, inserted_at]
    reactions,         \* table reactions: reaction id -> [user_id, post_id, comment_id]
    seeds,             \* number of seedings so far (the id generator's position)
    user_post_access,  \* table user_post_access: a set of grant rows
    sessions,          \* table auth_sessions: a set of [token, user_id, expires_at]
    clock,             \* the database's now() and the server's new Date(), in ticks
    last               \* the last request handled, with its response

\* The content tables.
content == <<pages, users, posts, comments, sentiments, reactions, seeds>>

vars == <<content, sessions, user_post_access, clock, last>>

NULL == "NULL"

\* ---------------------------------------------------------------- bounds
\* Largest value of the database clock now().
MaxClock == 1
\* Longest id list of a bulk grant request.
MaxBulk == 3
\* Largest number of seedings.
MaxSeeds == 2

\* Time is counted in ticks.
TicksPerHour == 2
Hours(n) == n * TicksPerHour
Days(n) == Hours(24 * n)

\* Id universes.  p3, c3, s3 and u9 are ids that resolve to no row.
PostIds == {"p1", "p2", "p3"}
CommentIds == {"c1", "c2", "c3"}
SentimentIds == {"s1", "s2", "s3"}
AuthUserIds == {"a1", "a2", "u1", "u2", "u9"}

\* auth_users rows: id -> role.
auth_users == [a1 |-> "admin", a2 |-> "admin", u1 |-> "user", u2 |-> "user"]

Admins == {u \in DOMAIN auth_users : auth_users[u] = "admin"}
\* Callers of the read endpoints (req.user of a verified token).
Readers == {"a1", "u1", "u2"}
\* Users named in grant and revoke requests.
Grantees == {"u1", "u2", "u9"}

\* The auth_sessions rows at the start: a1 and u1 are logged in with the
\* tokens t_a1 and t_u1, which expire in seven days.
auth_sessions ==
    {[token |-> "t_a1", user_id |-> "a1", expires_at |-> Days(7)],
     [token |-> "t_u1", user_id |-> "u1", expires_at |-> Days(7)]}

\* ------------------------------------------------------------ row lookups
\* A lookup by id yields result.rows as a set: empty (the code's null) or one row.
\* SELECT * FROM auth_users WHERE id = $1
AuthRepository_findById(id) ==
    IF id \in DOMAIN auth_users THEN {[id |-> id, role |-> auth_users[id]]} ELSE {}

\* SELECT ... FROM posts p WHERE p.id = $1
PostRepository_findById(id) ==
    IF id \in DOMAIN posts THEN {[id |-> id, page_id |-> posts[id].page_id]} ELSE {}

\* SELECT c.* FROM comments c WHERE c.id = $1
CommentRepository_findById(id) ==
    IF id \in DOMAIN comments
    THEN {[id |-> id, post_id |-> comments[id].post_id, user_id |-> comments[id].user_id]}
    ELSE {}

\* SELECT s.* FROM sentiments s WHERE s.id = $1
SentimentRepository_findById(id) ==
    IF id \in DOMAIN sentiments
    THEN {[id |-> id, post_id |-> sentiments[id].post_id,
           comment_id |-> sentiments[id].comment_id]}
    ELSE {}

\* ------------------------------------------------------ access grant store
\* Rows of user_post_access for one (auth_user_id, post_id) key.
RowsOf(upa, authUserId, postId) ==
    {g \in upa : g.auth_user_id = authUserId /\ g.post_id = postId}

\* Variant: the upsert keeps the first grantor on conflict.
AccessRepository_grantAccess_keepGrantor(upa, authUserId, postId, grantedBy, now) ==
    IF RowsOf(upa, authUserId, postId) = {}
    THEN upa \cup {[auth_user_id |-> authUserId, post_id |-> postId,
                    granted_by |-> grantedBy, granted_at |-> now]}
    ELSE {IF g.auth_user_id = authUserId /\ g.post_id = postId
          THEN [g EXCEPT !.granted_at = now]
          ELSE g : g \in upa}

\* INSERT ... ON CONFLICT (auth_user_id, post_id) DO UPDATE
\*   SET granted_at = now(), granted_by = $3
AccessRepository_grantAccess(upa, authUserId, postId, grantedBy, now) ==
    IF RowsOf(upa, authUserId, postId) = {}
    THEN upa \cup {[auth_user_id |-> authUserId, post_id |-> postId,
                    granted_by |-> grantedBy, granted_at |-> now]}
    ELSE {IF g.auth_user_id = authUserId /\ g.post_id = postId
          THEN [g EXCEPT !.granted_by = grantedBy, !.granted_at = now]
          ELSE g : g \in upa}

\* Variant: the DELETE keyed by the user alone.
AccessRepository_revokeAccess_allOfUser(upa, authUserId, postId) ==
    {g \in upa : g.auth_user_id # authUserId}

\* DELETE FROM user_post_access WHERE auth_user_id = $1 AND post_id = $2
AccessRepository_revokeAccess(upa, authUserId, postId) ==
    {g \in upa : ~(g.auth_user_id = authUserId /\ g.post_id = postId)}

\* Variant: the post is verified before the user.
AccessService_grantAccess_postFirst(upa, authUserId, postId, grantedBy, now) ==
    IF PostRepository_findById(postId) = {}
    THEN [error |-> "Post not found", upa |-> upa]
    ELSE IF AuthRepository_findById(authUserId) = {}
    THEN [error |-> "User not found", upa |-> upa]
    ELSE [error |-> NULL,
          upa |-> AccessRepository_grantAccess(upa, authUserId, postId, grantedBy, now)]

\* AccessService.grantAccess: the user, then the post, must exist.
\* Result: the error thrown (NULL when none) and the table afterwards.
AccessService_grantAccess(upa, authUserId, postId, grantedBy, now) ==
    IF AuthRepository_findById(authUserId) = {}
    THEN [error |-> "User not found", upa |-> upa]
    ELSE IF PostRepository_findById(postId) = {}
    THEN [error |-> "Post not found", upa |-> upa]
    ELSE [error |-> NULL,
          upa |-> AccessRepository_grantAccess(upa, authUserId, postId, grantedBy, now)]

\* The loop of both bulk grants, from item i on:
\*   for (const x of ids) { results.push(await this.grantAccess(...)) }
\* Each grantAccess is its own statement; the first throw ends the loop.
RECURSIVE GrantEach(_, _, _, _, _)
GrantEach(upa, pairs, grantedBy, now, i) ==
    IF i > Len(pairs) THEN [error |-> NULL, upa |-> upa]
    ELSE LET r == AccessService_grantAccess(upa, pairs[i][1], pairs[i][2], grantedBy, now)
         IN IF r.error # NULL THEN r
            ELSE GrantEach(r.upa, pairs, grantedBy, now, i + 1)

\* The (user, post) pairs a bulk grant walks through.
PairsToPost(userIds, postId) == [i \in 1..Len(userIds) |-> <<userIds[i], postId>>]
PairsToUser(authUserId, postIds) == [i \in 1..Len(postIds) |-> <<authUserId, postIds[i]>>]

\* Variant: the batch in one transaction, rolled back on the first throw.
AccessService_grantBulkAccessToPost_atomic(upa, userIds, postId, grantedBy, now) ==
    LET r == GrantEach(upa, PairsToPost(userIds, postId), grantedBy, now, 1)
    IN IF r.error # NULL THEN [r EXCEPT !.upa = upa] ELSE r

\* AccessService.grantBulkAccessToPost: many users, one post.
AccessService_grantBulkAccessToPost(upa, userIds, postId, grantedBy, now) ==
    GrantEach(upa, PairsToPost(userIds, postId), grantedBy, now, 1)

\* AccessService.grantBulkAccessToUser: one user, many posts.
AccessService_grantBulkAccessToUser(upa, authUserId, postIds, grantedBy, now) ==
    GrantEach(upa, PairsToUser(authUserId, postIds), grantedBy, now, 1)

\* --------------------------------------------------------- access predicates
\* An access predicate yields its boolean and the tables it queried.
\* Variant: the admin test folded into the grant lookup's result.
PostRepository_hasAccess_merged(postId, userId, role) ==
    [value |-> role = "admin" \/ RowsOf(user_post_access, userId, postId) # {},
     queried |-> {"user_post_access"}]

\* PostRepository.hasAccess: the admin test first, then
\* SELECT 1 FROM user_post_access WHERE auth_user_id = $1 AND post_id = $2
PostRepository_hasAccess(postId, userId, role) ==
    IF role = "admin"
    THEN [value |-> TRUE, queried |-> {}]
    ELSE [value |-> RowsOf(user_post_access, userId, postId) # {},
          queried |-> {"user_post_access"}]

\* Variant: the lookup keyed by the user alone.
AnalyticsRepository_hasPostAccess_anyPost(postId, userId, role) ==
    IF role = "admin"
    THEN [value |-> TRUE, queried |-> {}]
    ELSE [value |-> \E g \in user_post_access : g.auth_user_id = userId,
          queried |-> {"user_post_access"}]

\* AnalyticsRepository.hasPostAccess: the same rule, by rowCount.
AnalyticsRepository_hasPostAccess(postId, userId, role) ==
    IF role = "admin"
    THEN [value |-> TRUE, queried |-> {}]
    ELSE [value |-> Cardinality(RowsOf(user_post_access, userId, postId)) > 0,
          queried |-> {"user_post_access"}]

\* CommentRepository.hasAccess:
\* SELECT 1 FROM comments c INNER JOIN user_post_access upa
\*   ON c.post_id = upa.post_id WHERE c.id = $1 AND upa.auth_user_id = $2
CommentRepository_hasAccess(commentId, userId, role) ==
    IF role = "admin"
    THEN [value |-> TRUE, queried |-> {}]
    ELSE [value |-> \E c \in DOMAIN comments, g \in user_post_access :
                       /\ comments[c].post_id = g.post_id
                       /\ c = commentId
                       /\ g.auth_user_id = userId,
          queried |-> {"comments", "user_post_access"}]

\* c.post_id of the comment a sentiment is LEFT JOINed to (NULL when no row).
JoinedCommentPost(s) ==
    IF sentiments[s].comment_id \in DOMAIN comments
    THEN comments[sentiments[s].comment_id].post_id
    ELSE NULL

\* Variant: the user test bound to the comment disjunct only.
SentimentRepository_hasAccess_precedence(sentimentId, userId, role) ==
    IF role = "admin"
    THEN [value |-> TRUE, queried |-> {}]
    ELSE [value |-> \E s \in DOMAIN sentiments, g \in user_post_access :
                       /\ s = sentimentId
                       /\ \/ (sentiments[s].post_id # NULL /\ g.post_id = sentiments[s].post_id)
                          \/ /\ (sentiments[s].comment_id # NULL /\ g.post_id = JoinedCommentPost(s))
                             /\ g.auth_user_id = userId,
          queried |-> {"sentiments", "comments", "user_post_access"}]

\* SentimentRepository.hasAccess:
\* SELECT 1 FROM sentiments s LEFT JOIN comments c ON s.comment_id = c.id
\*   INNER JOIN user_post_access upa ON
\*     (s.post_id IS NOT NULL AND upa.post_id = s.post_id) OR
\*     (s.comment_id IS NOT NULL AND upa.post_id = c.post_id)
\*   WHERE s.id = $1 AND upa.auth_user_id = $2
SentimentRepository_hasAccess(sentimentId, userId, role) ==
    IF role = "admin"
    THEN [value |-> TRUE, queried |-> {}]
    ELSE [value |-> \E s \in DOMAIN sentiments, g \in user_post_access :
                       /\ \/ (sentiments[s].post_id # NULL /\ g.post_id = sentiments[s].post_id)
                          \/ (sentiments[s].comment_id # NULL /\ g.post_id = JoinedCommentPost(s))
                       /\ s = sentimentId
                       /\ g.auth_user_id = userId,
          queried |-> {"sentiments", "comments", "user_post_access"}]

\* ------------------------------------------------------------ list readers
\* A list result maps each row id to the number of result rows carrying it.
\* The readers are modelled without filters and with limit/offset covering
\* every row, except the comment reader's post_id filter, which a route sets.

\* Variant: the access join without its user condition.
PostRepository_findAllWithAccess_anyUser(userId, role) ==
    [p \in PostIds |->
        IF p \notin DOMAIN posts THEN 0
        ELSE IF role = "admin" THEN 1
        ELSE Cardinality({g \in user_post_access : p = g.post_id})]

\* PostRepository.findAllWithAccess: FROM posts p [INNER JOIN user_post_access
\*   upa ON p.id = upa.post_id AND upa.auth_user_id = $n] unless role admin.
PostRepository_findAllWithAccess(userId, role) ==
    [p \in PostIds |->
        IF p \notin DOMAIN posts THEN 0
        ELSE IF role = "admin" THEN 1
        ELSE Cardinality({g \in user_post_access :
                            p = g.post_id /\ g.auth_user_id = userId})]

\* Variant: the access join without its post condition.
CommentRepository_findAllWithAccess_anyPost(userId, role, post_id) ==
    [c \in CommentIds |->
        IF c \notin DOMAIN comments THEN 0
        ELSE IF post_id # NULL /\ comments[c].post_id # post_id THEN 0
        ELSE IF role = "admin" THEN 1
        ELSE Cardinality({g \in user_post_access : g.auth_user_id = userId})]

\* CommentRepository.findAllWithAccess: FROM comments c [INNER JOIN
\*   user_post_access upa ON c.post_id = upa.post_id AND upa.auth_user_id = $n]
\*   [WHERE c.post_id = $1]
CommentRepository_findAllWithAccess(userId, role, post_id) ==
    [c \in CommentIds |->
        IF c \notin DOMAIN comments THEN 0
        ELSE IF post_id # NULL /\ comments[c].post_id # post_id THEN 0
        ELSE IF role = "admin" THEN 1
        ELSE Cardinality({g \in user_post_access :
                            comments[c].post_id = g.post_id /\ g.auth_user_id = userId})]

\* SentimentRepository.findAllWithAccess: FROM sentiments s
\*   LEFT JOIN comments c_access ON s.comment_id = c_access.id
\*   INNER JOIN user_post_access upa ON
\*     (s.post_id IS NOT NULL AND upa.post_id = s.post_id) OR
\*     (s.comment_id IS NOT NULL AND upa.post_id = c_access.post_id)
\*     AND upa.auth_user_id = $n
\* AND binds tighter than OR: the user test belongs to the second disjunct.
SentimentRepository_findAllWithAccess(userId, role) ==
    [s \in SentimentIds |->
        IF s \notin DOMAIN sentiments THEN 0
        ELSE IF role = "admin" THEN 1
        ELSE Cardinality({g \in user_post_access :
               \/ (sentiments[s].post_id # NULL /\ g.post_id = sentiments[s].post_id)
               \/ /\ (sentiments[s].comment_id # NULL /\ g.post_id = JoinedCommentPost(s))
                  /\ g.auth_user_id = userId})]

\* --------------------------------------------------------- get-by-id readers
\* findByIdWithAccess: the access check first, null (no row) on denial.
PostRepository_findByIdWithAccess(id, userId, role) ==
    IF ~PostRepository_hasAccess(id, userId, role).value THEN {}
    ELSE PostRepository_findById(id)

CommentRepository_findByIdWithAccess(id, userId, role) ==
    IF ~CommentRepository_hasAccess(id, userId, role).value THEN {}
    ELSE CommentRepository_findById(id)

SentimentRepository_findByIdWithAccess(id, userId, role) ==
    IF ~SentimentRepository_hasAccess(id, userId, role).value THEN {}
    ELSE SentimentRepository_findById(id)

\* ------------------------------------------------------------ responses
Ok(data) == [status |-> 200, error |-> NULL, data |-> data]
Err(status, error) == [status |-> status, error |-> error, data |-> {}]

\* req.user.role of a caller.
RoleOf(caller) == auth_users[caller]

\* GET /api/posts/:id
Route_getPostById(caller, id) ==
    LET post == PostRepository_findByIdWithAccess(id, caller, RoleOf(caller))
    IN IF post = {} THEN Err(404, "Post not found or access denied") ELSE Ok(post)

\* GET /api/posts/:id/comments: the post's access check, then the comment list.
Route_getPostComments(caller, id) ==
    LET post == PostRepository_findByIdWithAccess(id, caller, RoleOf(caller))
    IN IF post = {} THEN Err(404, "Post not found or access denied")
       ELSE Ok(CommentRepository_findAllWithAccess(caller, RoleOf(caller), id))

\* GET /api/comments/:id
Route_getCommentById(caller, id) ==
    LET comment == CommentRepository_findByIdWithAccess(id, caller, RoleOf(caller))
    IN IF comment = {} THEN Err(404, "Comment not found or access denied") ELSE Ok(comment)

\* GET /api/sentiments/:id
Route_getSentimentById(caller, id) ==
    LET sentiment == SentimentRepository_findByIdWithAccess(id, caller, RoleOf(caller))
    IN IF sentiment = {} THEN Err(404, "Sentiment not found or access denied")
       ELSE Ok(sentiment)

\* The last request handled and its response.
NoReq ==
    [op |-> "none", token |-> NULL, caller |-> NULL, user |-> NULL, id |-> NULL,
     items |-> <<>>, options |-> {}, at |-> 0, queried |-> {}, value |-> FALSE,
     res |-> Ok({})]

\* A read leaves every table as it is.
Read(req) ==
    /\ last' = req
    /\ UNCHANGED <<content, sessions, user_post_access, clock>>

\* GET /api/posts
GetPosts(caller) ==
    Read([NoReq EXCEPT !.op = "GetPosts", !.caller = caller,
            !.res = Ok(PostRepository_findAllWithAccess(caller, RoleOf(caller)))])

GetPostById(caller, id) ==
    Read([NoReq EXCEPT !.op = "GetPostById", !.caller = caller, !.id = id,
            !.res = Route_getPostById(caller, id)])

GetPostComments(caller, id) ==
    Read([NoReq EXCEPT !.op = "GetPostComments", !.caller = caller, !.id = id,
            !.res = Route_getPostComments(caller, id)])

\* GET /api/comments
GetComments(caller) ==
    Read([NoReq EXCEPT !.op = "GetComments", !.caller = caller,
            !.res = Ok(CommentRepository_findAllWithAccess(caller, RoleOf(caller), NULL))])

GetCommentById(caller, id) ==
    Read([NoReq EXCEPT !.op = "GetCommentById", !.caller = caller, !.id = id,
            !.res = Route_getCommentById(caller, id)])

\* GET /api/sentiments
GetSentiments(caller) ==
    Read([NoReq EXCEPT !.op = "GetSentiments", !.caller = caller,
            !.res = Ok(SentimentRepository_findAllWithAccess(caller, RoleOf(caller)))])

GetSentimentById(caller, id) ==
    Read([NoReq EXCEPT !.op = "GetSentimentById", !.caller = caller, !.id = id,
            !.res = Route_getSentimentById(caller, id)])

\* One evaluation of an access predicate.
CheckAccess(op, caller, id, r) ==
    Read([NoReq EXCEPT !.op = op, !.caller = caller, !.id = id,
            !.value = r.value, !.queried = r.queried])

PostHasAccess(caller, id) ==
    CheckAccess("PostHasAccess", caller, id,
                PostRepository_hasAccess(id, caller, RoleOf(caller)))

AnalyticsHasPostAccess(caller, id) ==
    CheckAccess("AnalyticsHasPostAccess", caller, id,
                AnalyticsRepository_hasPostAccess(id, caller, RoleOf(caller)))

CommentHasAccess(caller, id) ==
    CheckAccess("CommentHasAccess", caller, id,
                CommentRepository_hasAccess(id, caller, RoleOf(caller)))

SentimentHasAccess(caller, id) ==
    CheckAccess("SentimentHasAccess", caller, id,
                SentimentRepository_hasAccess(id, caller, RoleOf(caller)))

\* POST /api/access/grant (behind authenticateToken, requireAdmin).
\* value records whether the upsert met an existing row.
Grant(by, authUserId, postId) ==
    LET r == AccessService_grantAccess(user_post_access, authUserId, postId, by, clock)
    IN /\ user_post_access' = r.upa
       /\ last' = [NoReq EXCEPT !.op = "grant", !.caller = by, !.user = authUserId,
                                !.id = postId, !.at = clock,
                                !.value = (RowsOf(user_post_access, authUserId, postId) # {}),
                                !.res = IF r.error = NULL THEN Ok({})
                                        ELSE Err(500, r.error)]
       /\ UNCHANGED <<content, sessions, clock>>

\* DELETE /api/access/revoke (behind authenticateToken, requireAdmin).
\* value records whether the DELETE met a row.
Revoke(by, authUserId, postId) ==
    /\ user_post_access' = AccessRepository_revokeAccess(user_post_access, authUserId, postId)
    /\ last' = [NoReq EXCEPT !.op = "revoke", !.caller = by, !.user = authUserId,
                             !.id = postId, !.at = clock,
                             !.value = (RowsOf(user_post_access, authUserId, postId) # {}),
                             !.res = Ok({})]
    /\ UNCHANGED <<content, sessions, clock>>

\* POST /api/access/grant-bulk-post (behind authenticateToken, requireAdmin)
GrantBulkPost(by, userIds, postId) ==
    LET r == AccessService_grantBulkAccessToPost(user_post_access, userIds, postId, by, clock)
    IN /\ user_post_access' = r.upa
       /\ last' = [NoReq EXCEPT !.op = "grantBulkPost", !.caller = by, !.id = postId,
                                !.items = PairsToPost(userIds, postId), !.at = clock,
                                !.res = IF r.error = NULL THEN Ok({})
                                        ELSE Err(500, r.error)]
       /\ UNCHANGED <<content, sessions, clock>>

\* POST /api/access/grant-bulk-user (behind authenticateToken, requireAdmin)
GrantBulkUser(by, authUserId, postIds) ==
    LET r == AccessService_grantBulkAccessToUser(user_post_access, authUserId, postIds, by, clock)
    IN /\ user_post_access' = r.upa
       /\ last' = [NoReq EXCEPT !.op = "grantBulkUser", !.caller = by, !.user = authUserId,
                                !.items = PairsToUser(authUserId, postIds), !.at = clock,
                                !.res = IF r.error = NULL THEN Ok({})
                                        ELSE Err(500, r.error)]
       /\ UNCHANGED <<content, sessions, clock>>

\* The database clock now() advances.
Tick ==
    /\ clock < MaxClock
    /\ clock' = clock + 1
    /\ UNCHANGED <<content, sessions, user_post_access, last>>

\* Rows as the ingestion pipeline writes them.
PageRow == [inserted_at |-> 0]
PostRow(page) == [page_id |-> page, posted_at |-> NULL, inserted_at |-> 0]
CommentRow(post, user) == [post_id |-> post, user_id |-> user]
PostSentiment(post, category) ==
    [post_id |-> post, comment_id |-> NULL, sentiment_category |-> category,
     confidence |-> 90, inserted_at |-> 0]
CommentSentiment(comment, category) ==
    [post_id |-> NULL, comment_id |-> comment, sentiment_category |-> category,
     confidence |-> 80, inserted_at |-> 0]

\* Content rows as the ingestion pipeline left them: every sentiment has
\* exactly one target, s1 a post and s2 a comment.
Init ==
    /\ pages = [g \in {"g1"} |-> PageRow]
    /\ users = {"x1", "x2"}
    /\ \E ids \in {{"p1"}, {"p1", "p2"}} : posts = [p \in ids |-> PostRow("g1")]
    /\ \E post_id \in [{"c1", "c2"} -> DOMAIN posts] :
         comments = [c \in {"c1", "c2"} |-> CommentRow(post_id[c], "x1")]
    /\ \E p \in DOMAIN posts, c \in {"c1", "c2"} :
         sentiments = [s \in {"s1", "s2"} |->
                         IF s = "s1" THEN PostSentiment(p, "positive")
                         ELSE CommentSentiment(c, "negative")]
    /\ reactions = [r \in {"r1"} |-> [user_id |-> "x1", post_id |-> "p1", comment_id |-> NULL]]
    /\ seeds = 0
    /\ sessions = auth_sessions
    /\ user_post_access = {}
    /\ clock = 0
    /\ last = NoReq

\* The read endpoints, with grants and revocations in between.
Next ==
    \/ \E u \in Grantees, p \in PostIds : Grant("a1", u, p)
    \/ \E u \in Grantees, p \in PostIds : Revoke("a1", u, p)
    \/ \E caller \in Readers : GetPosts(caller)
    \/ \E caller \in Readers, id \in PostIds : GetPostById(caller, id)
    \/ \E caller \in Readers, id \in PostIds : GetPostComments(caller, id)
    \/ \E caller \in Readers : GetComments(caller)
    \/ \E caller \in Readers, id \in CommentIds : GetCommentById(caller, id)
    \/ \E caller \in Readers : GetSentiments(caller)
    \/ \E caller \in Readers, id \in SentimentIds : GetSentimentById(caller, id)
    \/ \E caller \in Readers, id \in PostIds : PostHasAccess(caller, id)
    \/ \E caller \in Readers, id \in PostIds : AnalyticsHasPostAccess(caller, id)
    \/ \E caller \in Readers, id \in CommentIds : CommentHasAccess(caller, id)
    \/ \E caller \in Readers, id \in SentimentIds : SentimentHasAccess(caller, id)

Spec == Init /\ [][Next]_vars

\* Every reader holds a grant on every post: a pair without a grant row is
\* then a pair whose last grant operation was a committed revocation.
InitRevoke ==
    /\ pages = [g \in {"g1"} |-> PageRow]
    /\ users = {"x1", "x2"}
    /\ posts = [p \in {"p1", "p2"} |-> PostRow("g1")]
    /\ comments = [c \in {"c1", "c2"} |->
                     CommentRow(IF c = "c1" THEN "p1" ELSE "p2", "x1")]
    /\ \E p \in {"p1", "p2"}, c \in {"c1", "c2"} :
         sentiments = [s \in {"s1", "s2"} |->
                         IF s = "s1" THEN PostSentiment(p, "positive")
                         ELSE CommentSentiment(c, "negative")]
    /\ reactions = [r \in {"r1"} |-> [user_id |-> "x1", post_id |-> "p1", comment_id |-> NULL]]
    /\ seeds = 0
    /\ sessions = auth_sessions
    /\ user_post_access =
         {[auth_user_id |-> u, post_id |-> p, granted_by |-> "a1", granted_at |-> 0] :
             u \in {"u1", "u2"}, p \in {"p1", "p2"}}
    /\ clock = 0
    /\ last = NoReq

SpecRevoke == InitRevoke /\ [][Next]_vars

\* The grant store alone, over one fixed content: grants, re-grants and
\* revocations by both admins while the clock advances.
InitStore ==
    /\ pages = [g \in {"g1"} |-> PageRow]
    /\ users = {"x1", "x2"}
    /\ posts = [p \in {"p1", "p2"} |-> PostRow("g1")]
    /\ comments = [c \in {"c1", "c2"} |->
                     CommentRow(IF c = "c1" THEN "p1" ELSE "p2", "x1")]
    /\ sentiments = [s \in {"s1", "s2"} |->
                       IF s = "s1" THEN PostSentiment("p1", "positive")
                       ELSE CommentSentiment("c1", "negative")]
    /\ reactions = [r \in {"r1"} |-> [user_id |-> "x1", post_id |-> "p1", comment_id |-> NULL]]
    /\ seeds = 0
    /\ sessions = auth_sessions
    /\ user_post_access = {}
    /\ clock = 0
    /\ last = NoReq

NextStore ==
    \/ \E by \in Admins, u \in Grantees, p \in PostIds : Grant(by, u, p)
    \/ \E by \in Admins, u \in Grantees, p \in PostIds : Revoke(by, u, p)
    \/ Tick

SpecStore == InitStore /\ [][NextStore]_vars

\* Id lists of a bulk request: every sequence over S of length 0..MaxBulk.
BulkLists(S) == UNION {[1..n -> S] : n \in 0..MaxBulk}

\* Bulk grants by a1 for u1 and the unknown u9, among single grants by a2
\* and revocations.
NextBulk ==
    \/ \E p \in {"p1", "p2"} : Grant("a2", "u1", p)
    \/ \E p \in {"p1", "p2"} : Revoke("a2", "u1", p)
    \/ \E userIds \in BulkLists({"u1", "u9"}), p \in {"p1", "p3"} :
          GrantBulkPost("a1", userIds, p)
    \/ \E u \in {"u1", "u9"}, postIds \in BulkLists(PostIds) :
          GrantBulkUser("a1", u, postIds)

SpecBulk == InitStore /\ [][NextBulk]_vars

\* ------------------------------------------------- authentication middleware
\* Bearer tokens a request may carry (NULL: no Authorization header).
\* t_stale has a good signature but no session row; t_bad fails jwt.verify.
Tokens == {NULL, "t_bad", "t_stale", "t_a1", "t_u1"}

\* jwt.verify(token, secret): the payload of each well-signed, unexpired token.
jwt_payloads ==
    [t_a1 |-> [userId |-> "a1", role |-> "admin"],
     t_u1 |-> [userId |-> "u1", role |-> "user"],
     t_stale |-> [userId |-> "a1", role |-> "admin"]]

\* Users whose credentials a login request may carry.
LoginUsers == {"a1", "u1"}

\* jwt.sign(payload, secret, {expiresIn: '7d'}): the token is determined by the
\* payload and by iat, the time of the call; two calls of one tick are taken
\* to fall in the same second.
jwt_sign(userId, iat) == "jwt_" \o userId \o "_" \o ToString(iat)

\* jwt.verify(token, secret): the payload of a well-signed token that has not
\* reached its exp, seven days after iat; no payload when it throws.
jwt_verify(token, now) ==
    IF token \in DOMAIN jwt_payloads THEN {jwt_payloads[token]}
    ELSE {[userId |-> ui[1], role |-> auth_users[ui[1]]] :
             ui \in {ui \in LoginUsers \X (0..MaxClock) :
                       jwt_sign(ui[1], ui[2]) = token /\ now < ui[2] + Days(7)}}

\* INSERT INTO auth_sessions (user_id, token, expires_at)
AuthRepository_createSession(rows, userId, token, expiresAt) ==
    rows \cup {[token |-> token, user_id |-> userId, expires_at |-> expiresAt]}

\* SELECT * FROM auth_sessions WHERE token = $1 AND expires_at > NOW()
AuthRepository_findSessionByToken(rows, token, now) ==
    {row \in rows : row.token = token /\ row.expires_at > now}

\* DELETE FROM auth_sessions WHERE token = $1
AuthRepository_deleteSession(rows, token) == {row \in rows : row.token # token}

\* AuthService.verifyToken: the decoded payload, or no payload when it throws.
AuthService_verifyToken(token) ==
    IF jwt_verify(token, clock) = {} THEN {}
    ELSE IF AuthRepository_findSessionByToken(sessions, token, clock) = {} THEN {}
    ELSE jwt_verify(token, clock)

\* authenticateToken: req.user afterwards and the response it sent, if any.
authenticateToken(token) ==
    IF token = NULL
    THEN [user |-> {}, res |-> {Err(401, "Access token required")}]
    ELSE IF AuthService_verifyToken(token) = {}
    THEN [user |-> {}, res |-> {Err(403, "Invalid or expired token")}]
    ELSE [user |-> AuthService_verifyToken(token), res |-> {}]

\* Variant: requireAdmin without its role test.
requireAdmin_anyRole(user) ==
    IF user = {} THEN {Err(401, "Authentication required")}
    ELSE {}

\* requireAdmin: the response it sent, if any.
requireAdmin(user) ==
    IF user = {} THEN {Err(401, "Authentication required")}
    ELSE IF \E u \in user : u.role # "admin" THEN {Err(403, "Admin access required")}
    ELSE {}

\* The chain authenticateToken, requireAdmin in front of every access route.
AdminGate(token) ==
    LET a == authenticateToken(token)
    IN IF a.res # {} THEN a ELSE [user |-> a.user, res |-> requireAdmin(a.user)]

\* req.user.userId, NULL while req.user is not set.
UserIdOf(user) == IF user = {} THEN NULL ELSE (CHOOSE u \in user : TRUE).userId

\* ------------------------------------------------------------ access routes
\* The response of a grant route around a service result.
GrantResponse(r) == IF r.error = NULL THEN Ok({}) ELSE Err(500, r.error)

\* AccessRepository.getUserPosts: SELECT post_id ... WHERE auth_user_id = $1
AccessRepository_getUserPosts(authUserId) ==
    {g.post_id : g \in {h \in user_post_access : h.auth_user_id = authUserId}}

\* AccessRepository.getPostUsers: SELECT upa.* ... JOIN auth_users au
\*   ON upa.auth_user_id = au.id WHERE upa.post_id = $1
AccessRepository_getPostUsers(postId) ==
    {g \in user_post_access : g.auth_user_id \in DOMAIN auth_users /\ g.post_id = postId}

\* One request to an access route: the middleware chain, the handler's field
\* validation (badRequest, with its message), then the handler's call.
\* result is the service outcome [error, upa]; data the payload of a 200.
AccessRoute(req, token, badRequest, message, result, data) ==
    LET gate == AdminGate(token)
        seen == [req EXCEPT !.token = token, !.caller = UserIdOf(gate.user), !.at = clock]
    IN /\ IF gate.res # {}
          THEN /\ last' = [seen EXCEPT !.res = CHOOSE r \in gate.res : TRUE]
               /\ user_post_access' = user_post_access
          ELSE IF badRequest
          THEN /\ last' = [seen EXCEPT !.res = Err(400, message)]
               /\ user_post_access' = user_post_access
          ELSE /\ last' = [seen EXCEPT !.res = IF result.error = NULL THEN Ok(data)
                                                ELSE Err(500, result.error)]
               /\ user_post_access' = result.upa
       /\ UNCHANGED <<content, sessions, clock>>

\* POST /api/access/grant
AccessGrant(token, authUserId, postId) ==
    AccessRoute([NoReq EXCEPT !.op = "grant", !.user = authUserId, !.id = postId],
                token, authUserId = NULL \/ postId = NULL,
                "authUserId and postId are required",
                AccessService_grantAccess(user_post_access, authUserId, postId,
                                          UserIdOf(AdminGate(token).user), clock),
                {})

\* DELETE /api/access/revoke
AccessRevoke(token, authUserId, postId) ==
    AccessRoute([NoReq EXCEPT !.op = "revoke", !.user = authUserId, !.id = postId],
                token, authUserId = NULL \/ postId = NULL,
                "authUserId and postId are required",
                [error |-> NULL,
                 upa |-> AccessRepository_revokeAccess(user_post_access, authUserId, postId)],
                {})

\* GET /api/access/user/:userId
AccessUserPosts(token, userId) ==
    AccessRoute([NoReq EXCEPT !.op = "getUserPosts", !.user = userId],
                token, FALSE, NULL,
                [error |-> NULL, upa |-> user_post_access],
                AccessRepository_getUserPosts(userId))

\* GET /api/access/post/:postId
AccessPostUsers(token, postId) ==
    AccessRoute([NoReq EXCEPT !.op = "getPostUsers", !.id = postId],
                token, FALSE, NULL,
                [error |-> NULL, upa |-> user_post_access],
                AccessRepository_getPostUsers(postId))

\* POST /api/access/grant-bulk-post
AccessGrantBulkPost(token, userIds, postId) ==
    AccessRoute([NoReq EXCEPT !.op = "grantBulkPost", !.id = postId,
                              !.items = PairsToPost(userIds, postId)],
                token, postId = NULL,
                "userIds (array) and postId are required",
                AccessService_grantBulkAccessToPost(user_post_access, userIds, postId,
                                                    UserIdOf(AdminGate(token).user), clock),
                {})

\* POST /api/access/grant-bulk-user
AccessGrantBulkUser(token, authUserId, postIds) ==
    AccessRoute([NoReq EXCEPT !.op = "grantBulkUser", !.user = authUserId,
                              !.items = PairsToUser(authUserId, postIds)],
                token, authUserId = NULL,
                "authUserId and postIds (array) are required",
                AccessService_grantBulkAccessToUser(user_post_access, authUserId, postIds,
                                                    UserIdOf(AdminGate(token).user), clock),
                {})

\* Content with one or two posts, so that p2 may or may not resolve to a row.
InitAccess ==
    /\ pages = [g \in {"g1"} |-> PageRow]
    /\ users = {"x1", "x2"}
    /\ \E ids \in {{"p1"}, {"p1", "p2"}} : posts = [p \in ids |-> PostRow("g1")]
    /\ comments = [c \in {"c1", "c2"} |-> CommentRow("p1", "x1")]
    /\ sentiments = [s \in {"s1", "s2"} |->
                       IF s = "s1" THEN PostSentiment("p1", "positive")
                       ELSE CommentSentiment("c1", "negative")]
    /\ reactions = [r \in {"r1"} |-> [user_id |-> "x1", post_id |-> "p1", comment_id |-> NULL]]
    /\ seeds = 0
    /\ sessions = auth_sessions
    /\ user_post_access = {}
    /\ clock = 0
    /\ last = NoReq

\* The access routes as any client may call them.
NextAccess ==
    \/ \E token \in Tokens, u \in {"u1", NULL}, p \in PostIds \cup {NULL} :
          AccessGrant(token, u, p)
    \/ \E token \in Tokens, u \in {"u1", NULL}, p \in PostIds \cup {NULL} :
          AccessRevoke(token, u, p)
    \/ \E token \in Tokens, u \in {"u1", "u9"} : AccessUserPosts(token, u)
    \/ \E token \in Tokens, p \in PostIds : AccessPostUsers(token, p)
    \/ \E token \in Tokens, userIds \in BulkLists({"u1", "u9"}), p \in {"p1", NULL} :
          AccessGrantBulkPost(token, userIds, p)
    \/ \E token \in Tokens, u \in {"u1", NULL}, postIds \in BulkLists({"p2", "p3"}) :
          AccessGrantBulkUser(token, u, postIds)

SpecAccess == InitAccess /\ [][NextAccess]_vars

\* -------------------------------------------------------------- user reader
\* LOWER(sentiment_category) over the categories of the model.
LOWER(category) ==
    CASE category = "Positive" -> "positive"
      [] category = "Negative" -> "negative"
      [] category = "Neutral" -> "neutral"
      [] OTHER -> category

\* The include flags of UserQueryOptions, as the set of those that are on.
UserOptions == SUBSET {"includeComments", "includeReactions", "includeStats"}

\* SELECT * FROM comments WHERE user_id = $1
CommentsOfUser(u) == {c \in DOMAIN comments : comments[c].user_id = u}

\* SELECT * FROM reactions WHERE user_id = $1
ReactionsOfUser(u) == {r \in DOMAIN reactions : reactions[r].user_id = u}

\* SELECT * FROM sentiments WHERE comment_id = ANY($1), grouped by comment.
SentimentsOfComment(c) == {s \in DOMAIN sentiments : sentiments[s].comment_id = c}

\* COUNT(*) FILTER (WHERE LOWER(s.sentiment_category) = category)
\*   FROM sentiments s JOIN comments c ON s.comment_id = c.id WHERE c.user_id = u
CommentSentimentCount(u, category) ==
    Cardinality({s \in DOMAIN sentiments :
                    /\ sentiments[s].comment_id \in CommentsOfUser(u)
                    /\ LOWER(sentiments[s].sentiment_category) = category})

\* The top pages query: comments c JOIN posts p LEFT JOIN pages pg
\*   WHERE c.user_id = u GROUP BY p.page_id, with COUNT(DISTINCT c.id).
\* The model holds at most three pages, so LIMIT 3 cuts nothing.
TopPages(u) ==
    LET joined == {c \in CommentsOfUser(u) : comments[c].post_id \in DOMAIN posts}
        groups == {posts[comments[c].post_id].page_id : c \in joined}
    IN [g \in groups |->
          Cardinality({c \in joined : posts[comments[c].post_id].page_id = g})]

\* The stats projection of a user (polarity averages are not modelled).
UserStats(u) ==
    [total_comments |-> Cardinality(CommentsOfUser(u)),
     posts_commented |-> Cardinality({comments[c].post_id : c \in CommentsOfUser(u)} \ {NULL}),
     total_reactions |-> Cardinality(ReactionsOfUser(u)),
     positive |-> CommentSentimentCount(u, "positive"),
     neutral |-> CommentSentimentCount(u, "neutral"),
     negative |-> CommentSentimentCount(u, "negative"),
     top_pages |-> TopPages(u)]

\* A user row with the related data its options ask for.
UserWithDetails(u, options) ==
    [id |-> u,
     comments |-> IF "includeComments" \in options
                  THEN {[id |-> c, post_id |-> comments[c].post_id,
                         sentiments |-> SentimentsOfComment(c)] : c \in CommentsOfUser(u)}
                  ELSE {},
     reactions |-> IF "includeReactions" \in options THEN ReactionsOfUser(u) ELSE {},
     stats |-> IF "includeStats" \in options THEN {UserStats(u)} ELSE {}]

\* UserRepository.findAll(options): FROM users u
\*   [WHERE EXISTS (SELECT 1 FROM comments c WHERE c.user_id = u.id)]
\* It has no userId or role parameter.
UserRepository_findAll(options, onlyWithComments) ==
    {UserWithDetails(u, options) :
        u \in {v \in users : onlyWithComments => CommentsOfUser(v) # {}}}

\* UserRepository.findById(id, options): FROM users u WHERE u.id::text = $1
\* It has no userId or role parameter.
UserRepository_findById(id, options) ==
    IF id \in users THEN {UserWithDetails(id, options)} ELSE {}

\* GET /api/users: the handler destructures { users, totalCount } out of the
\* array findAll returns, so both are undefined and the body carries no data.
Route_getUsers(options, onlyWithComments) ==
    LET result == UserRepository_findAll(options, onlyWithComments)
        users_undefined == {}
    IN Ok(users_undefined)

\* GET /api/users/:id
Route_getUserById(id, options) ==
    LET user == UserRepository_findById(id, options)
    IN IF user = {} THEN Err(404, "User not found") ELSE Ok(user)

\* GET /api/users, mounted without any authentication middleware.
GetUsers(token, options, onlyWithComments) ==
    Read([NoReq EXCEPT !.op = "GetUsers", !.token = token, !.options = options,
            !.value = onlyWithComments,
            !.res = Route_getUsers(options, onlyWithComments)])

\* GET /api/users/:id, mounted without any authentication middleware.
GetUserById(token, id, options) ==
    Read([NoReq EXCEPT !.op = "GetUserById", !.token = token, !.id = id,
            !.options = options, !.res = Route_getUserById(id, options)])

\* ------------------------------------------------------------ seed and clear
\* The k-th id of a table that the n-th seeding gets from RETURNING id.
SeedId(table, n, k) == table \o ToString(n) \o "_" \o ToString(k)

\* What DELETE FROM posts does to the grants that reference the posts.  The
\* user_post_access schema is not part of the service's sources, so each
\* foreign-key behaviour is possible: "cascade" deletes the grants,
\* "restrict" makes the DELETE fail while a grant references a post, and
\* "none" (no foreign key) leaves the grants in place.
ForeignKeys == {"cascade", "restrict", "none"}

DeletePostsFails(fk) ==
    fk = "restrict" /\ \E g \in user_post_access : g.post_id \in DOMAIN posts

GrantsAfterDeletePosts(fk) ==
    IF fk = "cascade"
    THEN {g \in user_post_access : g.post_id \notin DOMAIN posts}
    ELSE user_post_access

\* DELETE FROM users WHERE id NOT IN (SELECT id FROM auth_users)
UsersAfterDelete == users \cap DOMAIN auth_users

\* The seeded rows, a scaled-down fixture of the same shape: users, pages,
\* posts on pages, one post-level sentiment per post, comments by users on
\* posts, one comment-level sentiment per comment, reactions on posts and on
\* comments.  inserted_at is the column default now().
SeedUsers(n) == {SeedId("x", n, k) : k \in 1..2}

SeedPages(n) == [g \in {SeedId("g", n, k) : k \in 1..2} |-> [inserted_at |-> clock]]

\* Each seeded post is on the page of its own page_url.
SeedPosts(n) ==
    [p \in {SeedId("p", n, k) : k \in 1..2} |->
        [page_id |-> IF p = SeedId("p", n, 1) THEN SeedId("g", n, 1) ELSE SeedId("g", n, 2),
         posted_at |-> NULL, inserted_at |-> clock]]

\* INSERT INTO sentiments (post_id, sentiment, sentiment_category, ...)
SeedPostSentiment(post, category) ==
    [post_id |-> post, comment_id |-> NULL, sentiment_category |-> category,
     confidence |-> 92, inserted_at |-> clock]

\* Variant: the comment sentiment also carries the comment's post.
SeedCommentSentiment_withPost(comment, post, category) ==
    [post_id |-> post, comment_id |-> comment, sentiment_category |-> category,
     confidence |-> 95, inserted_at |-> clock]

\* INSERT INTO sentiments (comment_id, sentiment, sentiment_category, ...)
SeedCommentSentiment(comment, post, category) ==
    [post_id |-> NULL, comment_id |-> comment, sentiment_category |-> category,
     confidence |-> 95, inserted_at |-> clock]

SeedComments(n) ==
    [c \in {SeedId("c", n, k) : k \in 1..3} |->
        IF c = SeedId("c", n, 1) THEN [post_id |-> SeedId("p", n, 1), user_id |-> SeedId("x", n, 2)]
        ELSE IF c = SeedId("c", n, 2) THEN [post_id |-> SeedId("p", n, 1), user_id |-> SeedId("x", n, 1)]
        ELSE [post_id |-> SeedId("p", n, 2), user_id |-> SeedId("x", n, 1)]]

SeedSentiments(n) ==
    [s \in {SeedId("s", n, k) : k \in 1..5} |->
        IF s = SeedId("s", n, 1) THEN SeedPostSentiment(SeedId("p", n, 1), "joy")
        ELSE IF s = SeedId("s", n, 2) THEN SeedPostSentiment(SeedId("p", n, 2), "neutral")
        ELSE IF s = SeedId("s", n, 3)
        THEN SeedCommentSentiment(SeedId("c", n, 1), SeedId("p", n, 1), "joy")
        ELSE IF s = SeedId("s", n, 4)
        THEN SeedCommentSentiment(SeedId("c", n, 2), SeedId("p", n, 1), "approval")
        ELSE SeedCommentSentiment(SeedId("c", n, 3), SeedId("p", n, 2), "anger")]

SeedReactions(n) ==
    [r \in {SeedId("r", n, k) : k \in 1..2} |->
        IF r = SeedId("r", n, 1)
        THEN [user_id |-> SeedId("x", n, 1), post_id |-> SeedId("p", n, 1), comment_id |-> NULL]
        ELSE [user_id |-> SeedId("x", n, 2), post_id |-> NULL, comment_id |-> SeedId("c", n, 1)]]

\* POST /api/seed, mounted without any authentication middleware:
\* SeedService.seedDatabase in one transaction, rolled back on an error.
Seed(token, fk) ==
    /\ seeds < MaxSeeds
    /\ IF DeletePostsFails(fk)
       THEN /\ last' = [NoReq EXCEPT !.op = "seed", !.token = token, !.at = clock,
                                     !.res = Err(500, "Failed to seed database")]
            /\ UNCHANGED <<content, user_post_access>>
       ELSE /\ seeds' = seeds + 1
            /\ users' = UsersAfterDelete \cup SeedUsers(seeds')
            /\ pages' = SeedPages(seeds')
            /\ posts' = SeedPosts(seeds')
            /\ comments' = SeedComments(seeds')
            /\ sentiments' = SeedSentiments(seeds')
            /\ reactions' = SeedReactions(seeds')
            /\ user_post_access' = GrantsAfterDeletePosts(fk)
            /\ last' = [NoReq EXCEPT !.op = "seed", !.token = token, !.at = clock,
                                     !.res = Ok({})]
    /\ UNCHANGED <<sessions, clock>>

\* DELETE /api/seed, mounted without any authentication middleware:
\* SeedService.clearDatabase in one transaction; it leaves the pages.
Clear(token, fk) ==
    /\ IF DeletePostsFails(fk)
       THEN /\ last' = [NoReq EXCEPT !.op = "clear", !.token = token, !.at = clock,
                                     !.res = Err(500, "Failed to clear database")]
            /\ UNCHANGED <<content, user_post_access>>
       ELSE /\ reactions' = [r \in {} |-> NULL]
            /\ sentiments' = [r \in {} |-> NULL]
            /\ comments' = [r \in {} |-> NULL]
            /\ posts' = [r \in {} |-> NULL]
            /\ users' = UsersAfterDelete
            /\ user_post_access' = GrantsAfterDeletePosts(fk)
            /\ last' = [NoReq EXCEPT !.op = "clear", !.token = token, !.at = clock,
                                     !.res = Ok({})]
            /\ UNCHANGED <<pages, seeds>>
    /\ UNCHANGED <<sessions, clock>>

\* Callers of the routes that take any request.
AnyTokens == {NULL, "t_u1", "t_a1"}

\* The user routes and the seed routes as any client may call them, among
\* grants and revocations by the admin a1.
NextContent ==
    \/ \E token \in AnyTokens, fk \in ForeignKeys : Seed(token, fk)
    \/ \E token \in AnyTokens, fk \in ForeignKeys : Clear(token, fk)
    \/ \E token \in AnyTokens, options \in UserOptions, onlyWithComments \in BOOLEAN :
          GetUsers(token, options, onlyWithComments)
    \/ \E token \in AnyTokens, id \in {"x9"} \cup users, options \in UserOptions :
          GetUserById(token, id, options)
    \/ \E p \in DOMAIN posts : Grant("a1", "u1", p)
    \/ \E p \in DOMAIN posts : Revoke("a1", "u1", p)

SpecContent == InitStore /\ [][NextContent]_vars

\* ------------------------------------------------- analytics aggregations
\* SUM(confidence) over a set of sentiment rows.
RECURSIVE SumConfidence(_)
SumConfidence(S) ==
    IF S = {} THEN 0
    ELSE LET s == CHOOSE x \in S : TRUE
         IN sentiments[s].confidence + SumConfidence(S \ {s})

\* AVG(confidence) over a set of sentiment rows, as the exact fraction
\* <<sum, count>>; SQL's NULL over no rows.
AvgConfidence(S) == IF S = {} THEN <<>> ELSE <<SumConfidence(S), Cardinality(S)>>

\* Variant: the commenters query without its access clause.
AnalyticsRepository_getUsersByPostId_noAccessClause(postId, userId, role) ==
    {[id |-> u,
      comment_count |-> Cardinality({c \in DOMAIN comments :
                           comments[c].user_id = u /\ comments[c].post_id = postId})] :
        u \in {u \in users : \E c \in DOMAIN comments :
                   comments[c].user_id = u /\ comments[c].post_id = postId}}

\* AnalyticsRepository.getUsersByPostId: FROM users u INNER JOIN comments c
\*   ON u.id = c.user_id WHERE c.post_id = $1 [AND EXISTS (SELECT 1 FROM
\*   user_post_access upa WHERE upa.post_id = c.post_id AND upa.auth_user_id = $2)]
\*   GROUP BY u.id
AnalyticsRepository_getUsersByPostId(postId, userId, role) ==
    LET joined(u) == {c \in DOMAIN comments :
                        /\ comments[c].user_id = u
                        /\ comments[c].post_id = postId
                        /\ (role # "admin" =>
                              \E g \in user_post_access :
                                  g.post_id = comments[c].post_id /\ g.auth_user_id = userId)}
    IN {[id |-> u, comment_count |-> Cardinality(joined(u))] :
            u \in {u \in users : joined(u) # {}}}

\* AnalyticsRepository.getPostSentiments: the access check, then
\*   FROM sentiments s WHERE s.post_id = $1 AND s.comment_id IS NULL
AnalyticsRepository_getPostSentiments(postId, userId, role) ==
    IF ~AnalyticsRepository_hasPostAccess(postId, userId, role).value THEN {}
    ELSE {[id |-> s, post_id |-> sentiments[s].post_id,
           sentiment_category |-> sentiments[s].sentiment_category] :
            s \in {s \in DOMAIN sentiments :
                     sentiments[s].post_id = postId /\ sentiments[s].comment_id = NULL}}

\* AnalyticsRepository.getCommentSentimentsByPostId: the access check, then
\*   FROM sentiments s INNER JOIN comments c ON s.comment_id = c.id
\*   WHERE c.post_id = $1
AnalyticsRepository_getCommentSentimentsByPostId(postId, userId, role) ==
    IF ~AnalyticsRepository_hasPostAccess(postId, userId, role).value THEN {}
    ELSE {[id |-> s, comment_id |-> sentiments[s].comment_id,
           sentiment_category |-> sentiments[s].sentiment_category,
           user_id |-> comments[sentiments[s].comment_id].user_id] :
            s \in {s \in DOMAIN sentiments :
                     /\ sentiments[s].comment_id \in DOMAIN comments
                     /\ comments[sentiments[s].comment_id].post_id = postId}}

\* AnalyticsRepository.getPostSentimentSummary: the access check, then
\*   FROM sentiments WHERE post_id = $1 [GROUP BY sentiment_category].
\* null is the empty set, the summary a one-element set.
AnalyticsRepository_getPostSentimentSummary(postId, userId, role) ==
    IF ~AnalyticsRepository_hasPostAccess(postId, userId, role).value THEN {}
    ELSE LET rows == {s \in DOMAIN sentiments : sentiments[s].post_id = postId}
             of(category) == {s \in rows : sentiments[s].sentiment_category = category}
         IN {[post_id |-> postId,
              total |-> [total_sentiments |-> Cardinality(rows),
                         overall_avg_confidence |-> AvgConfidence(rows)],
              by_category |->
                 {[sentiment_category |-> category,
                   count |-> Cardinality(of(category)),
                   avg_confidence |-> AvgConfidence(of(category))] :
                     category \in {sentiments[s].sentiment_category : s \in rows}}]}

\* AnalyticsRepository.getCommentsWithSentiment: the access check when a post
\* is named, then FROM comments c INNER JOIN posts p ON c.post_id = p.id
\*   LEFT JOIN sentiments s ON s.comment_id = c.id
\*   [INNER JOIN user_post_access upa ON upa.post_id = p.id AND upa.auth_user_id = $n]
\*   [WHERE c.post_id = $1]
AnalyticsRepository_getCommentsWithSentiment(postId, userId, role) ==
    IF postId # NULL /\ ~AnalyticsRepository_hasPostAccess(postId, userId, role).value
    THEN {}
    ELSE LET cs == {c \in DOMAIN comments :
                      /\ comments[c].post_id \in DOMAIN posts
                      /\ (postId # NULL => comments[c].post_id = postId)
                      /\ (role # "admin" =>
                            \E g \in user_post_access :
                                g.post_id = comments[c].post_id /\ g.auth_user_id = userId)}
             ss(c) == {s \in DOMAIN sentiments : sentiments[s].comment_id = c}
         IN {[id |-> c, post_id |-> comments[c].post_id, user_id |-> comments[c].user_id,
              sentiment |-> NULL] : c \in {c \in cs : ss(c) = {}}}
            \cup UNION {{[id |-> c, post_id |-> comments[c].post_id,
                          user_id |-> comments[c].user_id, sentiment |-> s] : s \in ss(c)} :
                           c \in cs}

\* AnalyticsRepository.getUserActivityOnPost: the access check, then the
\* target user's comments (LEFT JOIN sentiments) and reactions on the post.
AnalyticsRepository_getUserActivityOnPost(targetUserId, postId, userId, role) ==
    IF ~AnalyticsRepository_hasPostAccess(postId, userId, role).value THEN {}
    ELSE LET cs == {c \in DOMAIN comments :
                      comments[c].user_id = targetUserId /\ comments[c].post_id = postId}
             ss(c) == {s \in DOMAIN sentiments : sentiments[s].comment_id = c}
             commentRows ==
                 {[id |-> c, sentiment |-> NULL] : c \in {c \in cs : ss(c) = {}}}
                 \cup UNION {{[id |-> c, sentiment |-> s] : s \in ss(c)} : c \in cs}
             rs == {r \in DOMAIN reactions :
                      reactions[r].user_id = targetUserId /\ reactions[r].post_id = postId}
         IN {[user_id |-> targetUserId, post_id |-> postId,
              comments |-> commentRows, reactions |-> rs,
              comment_count |-> Cardinality(commentRows),
              reaction_count |-> Cardinality(rs)]}

\* The analytics routes, each behind authenticateToken: res.json of the result.
\* GET /api/analytics/posts/:postId/users
GetUsersByPostId(caller, postId) ==
    Read([NoReq EXCEPT !.op = "GetUsersByPostId", !.caller = caller, !.id = postId,
            !.res = Ok(AnalyticsRepository_getUsersByPostId(postId, caller, RoleOf(caller)))])

\* GET /api/analytics/posts/:postId/sentiments
GetPostSentiments(caller, postId) ==
    Read([NoReq EXCEPT !.op = "GetPostSentiments", !.caller = caller, !.id = postId,
            !.res = Ok(AnalyticsRepository_getPostSentiments(postId, caller, RoleOf(caller)))])

\* GET /api/analytics/posts/:postId/comment-sentiments
GetCommentSentimentsByPostId(caller, postId) ==
    Read([NoReq EXCEPT !.op = "GetCommentSentimentsByPostId", !.caller = caller,
            !.id = postId,
            !.res = Ok(AnalyticsRepository_getCommentSentimentsByPostId(
                          postId, caller, RoleOf(caller)))])

\* GET /api/analytics/posts/:postId/sentiment-summary
GetPostSentimentSummary(caller, postId) ==
    Read([NoReq EXCEPT !.op = "GetPostSentimentSummary", !.caller = caller, !.id = postId,
            !.res = Ok(AnalyticsRepository_getPostSentimentSummary(
                          postId, caller, RoleOf(caller)))])

\* GET /api/analytics/comments-with-sentiment[?post_id=]
GetCommentsWithSentiment(caller, postId) ==
    Read([NoReq EXCEPT !.op = "GetCommentsWithSentiment", !.caller = caller, !.id = postId,
            !.res = Ok(AnalyticsRepository_getCommentsWithSentiment(
                          postId, caller, RoleOf(caller)))])

\* GET /api/analytics/users/:userId/posts/:postId/activity
GetUserActivityOnPost(caller, targetUserId, postId) ==
    Read([NoReq EXCEPT !.op = "GetUserActivityOnPost", !.caller = caller,
            !.user = targetUserId, !.id = postId,
            !.res = Ok(AnalyticsRepository_getUserActivityOnPost(
                          targetUserId, postId, caller, RoleOf(caller)))])

NextAnalytics ==
    \/ \E u \in {"u1", "u2"}, p \in DOMAIN posts : Grant("a1", u, p)
    \/ \E u \in {"u1", "u2"}, p \in DOMAIN posts : Revoke("a1", u, p)
    \/ \E caller \in Readers, p \in PostIds : GetUsersByPostId(caller, p)
    \/ \E caller \in Readers, p \in PostIds : GetPostSentiments(caller, p)
    \/ \E caller \in Readers, p \in PostIds : GetCommentSentimentsByPostId(caller, p)
    \/ \E caller \in Readers, p \in PostIds : GetPostSentimentSummary(caller, p)
    \/ \E caller \in Readers, p \in PostIds \cup {NULL} : GetCommentsWithSentiment(caller, p)
    \/ \E caller \in Readers, x \in users, p \in PostIds :
          GetUserActivityOnPost(caller, x, p)

SpecAnalytics == InitStore /\ [][NextAnalytics]_vars

\* ---------------------------------------------------------------- dashboard
\* DATE_TRUNC('hour', t) cuts t to a whole hour.
DATE_TRUNC_hour(t) == t - (t % TicksPerHour)

\* The tables the dashboard queries read.
Database ==
    [pages |-> pages, posts |-> posts, comments |-> comments,
     sentiments |-> sentiments, reactions |-> reactions,
     user_post_access |-> user_post_access]

\* Number(rows[0]?.x ?? 0) of a quotient n / NULLIF(d, 0), and
\* "d > 0 ? n / d : 0": the exact fraction, zero over no rows.
Ratio(n, d) == IF d = 0 THEN [num |-> 0, den |-> 1] ELSE [num |-> n, den |-> d]

\* COALESCE(p.posted_at, p.inserted_at)
PostTime(db, p) ==
    IF db.posts[p].posted_at = NULL THEN db.posts[p].inserted_at
    ELSE db.posts[p].posted_at

\* Variant: the admin form of the post query for every role.
Dashboard_posts_allPosts(db, userId, role) == DOMAIN db.posts

\* FROM posts p [INNER JOIN user_post_access upa ON upa.post_id = p.id
\*   AND upa.auth_user_id = $1]: the distinct posts.
Dashboard_posts(db, userId, role) ==
    {p \in DOMAIN db.posts :
        role # "admin" =>
            \E g \in db.user_post_access : g.post_id = p /\ g.auth_user_id = userId}

\* FROM sentiments s [INNER JOIN posts p ... INNER JOIN user_post_access ...]
\*   WHERE s.post_id IS NOT NULL AND s.comment_id IS NULL
Dashboard_postSentiments(db, userId, role) ==
    {s \in DOMAIN db.sentiments :
        /\ db.sentiments[s].post_id # NULL
        /\ db.sentiments[s].comment_id = NULL
        /\ (role # "admin" =>
              /\ db.sentiments[s].post_id \in DOMAIN db.posts
              /\ \E g \in db.user_post_access :
                    g.post_id = db.sentiments[s].post_id /\ g.auth_user_id = userId)}

\* sentimentCounts: GROUP BY LOWER(sentiment_category), kept for the three
\* categories of the switch.
Dashboard_sentimentCount(db, userId, role, category) ==
    Cardinality({s \in Dashboard_postSentiments(db, userId, role) :
                    /\ db.sentiments[s].sentiment_category # NULL
                    /\ LOWER(db.sentiments[s].sentiment_category) = category})

\* FROM posts p [INNER JOIN user_post_access ...] LEFT JOIN comments c ON
\*   c.post_id = p.id: COUNT(DISTINCT c.id)
Dashboard_engagementComments(db, userId, role) ==
    {c \in DOMAIN db.comments : db.comments[c].post_id \in Dashboard_posts(db, userId, role)}

\* ... LEFT JOIN reactions r ON r.post_id = p.id: COUNT(DISTINCT r.id)
Dashboard_engagementReactions(db, userId, role) ==
    {r \in DOMAIN db.reactions : db.reactions[r].post_id \in Dashboard_posts(db, userId, role)}

\* Math.round(avgEngagementRaw * 10) / 10 with avgEngagementRaw =
\* (avgCommentsPerPost + avgReactionsPerPost) * 10, in tenths.
Dashboard_avgEngagement(db, userId, role) ==
    LET n == Cardinality(Dashboard_engagementComments(db, userId, role))
             + Cardinality(Dashboard_engagementReactions(db, userId, role))
        d == Cardinality(Dashboard_posts(db, userId, role))
    IN IF d = 0 THEN 0 ELSE (n * 200 + d) \div (2 * d)

\* trendQuery: the post-level sentiments of the last 24 hours.
Dashboard_trendRows(db, userId, role, now) ==
    {s \in Dashboard_postSentiments(db, userId, role) :
        /\ db.sentiments[s].inserted_at >= now - Hours(24)
        /\ db.sentiments[s].sentiment_category # NULL}

\* The count the trend query reports for one truncated hour and category.
Dashboard_trendCount(db, userId, role, now, date, category) ==
    Cardinality({s \in Dashboard_trendRows(db, userId, role, now) :
                    /\ DATE_TRUNC_hour(db.sentiments[s].inserted_at) = date
                    /\ LOWER(db.sentiments[s].sentiment_category) = category})

\* Variant: the buckets seeded from the current hour backwards.
TrendDates_newestFirst(now) == [k \in 1..24 |-> now - Hours(k - 1)]

\* for (i = 23; i >= 0; i--) { date = new Date(); date.setHours(date.getHours() - i) }
\* The date is the current instant moved back by whole hours, not cut to the hour.
TrendDates(now) == [k \in 1..24 |-> now - Hours(24 - k)]

\* sentimentTrend: every bucket seeded with zeros, then overwritten by the
\* trend rows whose truncated hour equals the bucket's date.
Dashboard_sentimentTrend(db, userId, role, now) ==
    [k \in 1..24 |->
        LET date == TrendDates(now)[k]
        IN [date |-> date,
            positive |-> Dashboard_trendCount(db, userId, role, now, date, "positive"),
            negative |-> Dashboard_trendCount(db, userId, role, now, date, "negative"),
            neutral |-> Dashboard_trendCount(db, userId, role, now, date, "neutral")]]

\* pageCountsQuery: FROM pages [pg INNER JOIN posts p ON p.page_id = pg.id
\*   INNER JOIN user_post_access ...]: the distinct pages.
Dashboard_pages(db, userId, role) ==
    IF role = "admin" THEN DOMAIN db.pages
    ELSE {g \in DOMAIN db.pages :
            \E p \in Dashboard_posts(db, userId, role) : db.posts[p].page_id = g}

\* activePagesQuery: pages with a post (of the caller's grants) in the last 7 days.
Dashboard_activePages(db, userId, role, now) ==
    {g \in DOMAIN db.pages :
        \E p \in Dashboard_posts(db, userId, role) :
            db.posts[p].page_id = g /\ PostTime(db, p) >= now - Days(7)}

\* commentsCountQuery: FROM comments [c INNER JOIN posts p ON c.post_id = p.id
\*   INNER JOIN user_post_access ...]
Dashboard_comments(db, userId, role) ==
    IF role = "admin" THEN DOMAIN db.comments
    ELSE {c \in DOMAIN db.comments :
            db.comments[c].post_id \in Dashboard_posts(db, userId, role)}

\* postsWindowQuery(interval)
Dashboard_postsWindow(db, userId, role, now, interval) ==
    {p \in Dashboard_posts(db, userId, role) : PostTime(db, p) >= now - interval}

\* uniqueCommentersQuery: COUNT(DISTINCT c.user_id) ... WHERE c.user_id IS NOT NULL
Dashboard_uniqueCommenters(db, userId, role) ==
    {db.comments[c].user_id : c \in Dashboard_comments(db, userId, role)} \ {NULL}

\* sentimentConfidenceQuery: AVG(s.confidence) over the post-level sentiments.
RECURSIVE Dashboard_sumConfidence(_, _)
Dashboard_sumConfidence(db, S) ==
    IF S = {} THEN 0
    ELSE LET s == CHOOSE x \in S : TRUE
         IN db.sentiments[s].confidence + Dashboard_sumConfidence(db, S \ {s})

\* AnalyticsRepository.getDashboardStats
AnalyticsRepository_getDashboardStats(db, userId, role, now) ==
    LET totalPosts == Cardinality(Dashboard_posts(db, userId, role))
        totalPages == Cardinality(Dashboard_pages(db, userId, role))
        totalComments == Cardinality(Dashboard_comments(db, userId, role))
        postSentiments == Dashboard_postSentiments(db, userId, role)
    IN [totalPosts |-> totalPosts,
        positivePosts |-> Dashboard_sentimentCount(db, userId, role, "positive"),
        negativePosts |-> Dashboard_sentimentCount(db, userId, role, "negative"),
        neutralPosts |-> Dashboard_sentimentCount(db, userId, role, "neutral"),
        avgEngagement |-> Dashboard_avgEngagement(db, userId, role),
        sentimentTrend |-> Dashboard_sentimentTrend(db, userId, role, now),
        pageSummary |->
           [totalPages |-> totalPages,
            activePagesLast7Days |->
               Cardinality(Dashboard_activePages(db, userId, role, now)),
            pagesAddedLast30Days |->
               Cardinality({g \in Dashboard_pages(db, userId, role) :
                               db.pages[g].inserted_at >= now - Days(30)}),
            avgPostsPerPage |-> Ratio(totalPosts, totalPages),
            avgCommentsPerPage |-> Ratio(totalComments, totalPages)],
        postSummary |->
           [postsLast24Hours |->
               Cardinality(Dashboard_postsWindow(db, userId, role, now, Hours(24))),
            postsLast7Days |->
               Cardinality(Dashboard_postsWindow(db, userId, role, now, Days(7))),
            avgCommentsPerPost |->
               Ratio(Cardinality(Dashboard_engagementComments(db, userId, role)), totalPosts),
            avgReactionsPerPost |->
               Ratio(Cardinality(Dashboard_engagementReactions(db, userId, role)), totalPosts),
            uniqueCommenters |-> Cardinality(Dashboard_uniqueCommenters(db, userId, role)),
            avgSentimentConfidence |->
               Ratio(Dashboard_sumConfidence(db, postSentiments),
                     Cardinality(postSentiments))]]

\* GET /api/dashboard/stats (behind authenticateToken); NOW() is the clock.
GetDashboardStats(caller) ==
    Read([NoReq EXCEPT !.op = "GetDashboardStats", !.caller = caller, !.at = clock,
            !.res = Ok(AnalyticsRepository_getDashboardStats(
                          Database, caller, RoleOf(caller), clock))])

\* Content written before time 0: two pages with one post each, a page
\* without posts, a post-level sentiment on each post (that of p1 inserted an
\* hour ago on the hour, within the last hour, or before the trend window), a
\* comment-level sentiment, and pages and posts old or new; u2 holds a grant
\* on p2.
InitDash ==
    /\ \E t \in {0, 0 - Days(31)} :
         pages = [g \in {"g1", "g2", "g3"} |->
                    [inserted_at |-> IF g = "g1" THEN t ELSE 0 - Days(31)]]
    /\ users = {"x1", "x2"}
    /\ \E t \in {0 - Hours(2), 0 - Days(8)} :
         posts = [p \in {"p1", "p2"} |->
                    [page_id |-> IF p = "p1" THEN "g1" ELSE "g2", posted_at |-> NULL,
                     inserted_at |-> IF p = "p1" THEN t ELSE 0 - Hours(3)]]
    /\ comments = [c \in {"c1", "c2"} |->
                     CommentRow(IF c = "c1" THEN "p1" ELSE "p2",
                                IF c = "c1" THEN "x1" ELSE "x2")]
    /\ \E t \in {0 - Hours(1), 0 - 1, 0 - Hours(25)} :
         sentiments = [s \in {"s1", "s2", "s3"} |->
                         CASE s = "s1" -> [PostSentiment("p1", "positive")
                                              EXCEPT !.inserted_at = t]
                           [] s = "s2" -> [PostSentiment("p2", "Negative")
                                              EXCEPT !.inserted_at = 0 - Hours(2)]
                           [] OTHER -> [CommentSentiment("c1", "neutral")
                                              EXCEPT !.inserted_at = 0 - Hours(1)]]
    /\ reactions = [r \in {"r1", "r2"} |->
                      [user_id |-> "x1", post_id |-> IF r = "r1" THEN "p1" ELSE "p2",
                       comment_id |-> NULL]]
    /\ seeds = 0
    /\ sessions = auth_sessions
    /\ user_post_access =
         {[auth_user_id |-> "u2", post_id |-> "p2", granted_by |-> "a1", granted_at |-> 0]}
    /\ clock = 0
    /\ last = NoReq

NextDash ==
    \/ \E p \in DOMAIN posts : Grant("a1", "u1", p)
    \/ \E p \in DOMAIN posts : Revoke("a1", "u1", p)
    \/ \E caller \in Readers : GetDashboardStats(caller)
    \/ Tick

SpecDash == InitDash /\ [][NextDash]_vars

\* ---------------------------------------------- post readers with details
\* The query options of the post readers that bear on the returned rows: the
\* sentiment filter (NULL when absent) and the includeReactions flag.
SentimentFilters == {NULL, "positive", "Positive", "joy", "negative"}
PostQueryOptions == [sentiment : SentimentFilters, includeReactions : BOOLEAN]

\* COALESCE((SELECT COUNT(*) FROM comments WHERE post_id = p.id), 0)
commentCountExpr(p) == Cardinality({c \in DOMAIN comments : comments[c].post_id = p})
\* COALESCE((SELECT COUNT(*) FROM reactions WHERE post_id = p.id), 0)
reactionCountExpr(p) == Cardinality({r \in DOMAIN reactions : reactions[r].post_id = p})

\* mapPostRow: comment_count always; reaction_count and engagement_score only
\* when the row carries them.  The fields of the result are its DOMAIN.
mapPostRow(row) ==
    [k \in {"id", "page_id", "comment_count"}
               \cup ({"reaction_count", "engagement_score"} \cap DOMAIN row) |-> row[k]]

\* The post-level sentiments of p that "ORDER BY s.inserted_at DESC LIMIT 1"
\* may yield: those of the greatest inserted_at (any one of them on a tie).
LatestCandidates(p) ==
    {s \in DOMAIN sentiments :
        /\ sentiments[s].post_id = p /\ sentiments[s].comment_id = NULL
        /\ \A o \in DOMAIN sentiments :
              (sentiments[o].post_id = p /\ sentiments[o].comment_id = NULL)
                  => sentiments[o].inserted_at <= sentiments[s].inserted_at}

\* The choices of the database: for every post its latest post-level
\* sentiment, NULL when it has none.
LatestChoices ==
    {latest \in [DOMAIN posts -> DOMAIN sentiments \cup {NULL}] :
        \A p \in DOMAIN posts :
            IF LatestCandidates(p) = {} THEN latest[p] = NULL
            ELSE latest[p] \in LatestCandidates(p)}

\* Variant: the filter matching any post-level sentiment of the post.
SentimentFilter_anyRow(p, latest, v) ==
    \E s \in DOMAIN sentiments :
        /\ sentiments[s].post_id = p /\ sentiments[s].comment_id = NULL
        /\ \/ LOWER(sentiments[s].sentiment_category) = LOWER(v)
           \/ LOWER(sentiments[s].sentiment) = LOWER(v)

\* EXISTS (SELECT 1 FROM (... LIMIT 1) latest WHERE
\*   LOWER(latest.sentiment_category) = LOWER($n) OR LOWER(latest.sentiment) = LOWER($n))
SentimentFilter(p, latest, v) ==
    /\ latest[p] # NULL
    /\ \/ /\ sentiments[latest[p]].sentiment_category # NULL
          /\ LOWER(sentiments[latest[p]].sentiment_category) = LOWER(v)
       \/ /\ sentiments[latest[p]].sentiment # NULL
          /\ LOWER(sentiments[latest[p]].sentiment) = LOWER(v)

\* PostRepository.findAllWithAccess with options: FROM posts p
\*   [INNER JOIN user_post_access upa ON p.id = upa.post_id AND upa.auth_user_id = $n]
\*   [WHERE EXISTS (latest sentiment matches)], every row with the three counts.
PostRepository_findAllWithAccess_rows(userId, role, options, latest) ==
    {mapPostRow([id |-> p, page_id |-> posts[p].page_id,
                 comment_count |-> commentCountExpr(p),
                 reaction_count |-> reactionCountExpr(p),
                 engagement_score |-> commentCountExpr(p) + reactionCountExpr(p)]) :
        p \in {p \in DOMAIN posts :
                 /\ (role # "admin" =>
                       \E g \in user_post_access : p = g.post_id /\ g.auth_user_id = userId)
                 /\ (options.sentiment # NULL =>
                       SentimentFilter(p, latest, options.sentiment))}}

\* PostRepository.findById with options: comment_count, reaction_count only
\* with includeReactions, no engagement_score.
PostRepository_findById_rows(id, options) ==
    IF id \notin DOMAIN posts THEN {}
    ELSE {mapPostRow(
            IF options.includeReactions
            THEN [id |-> id, page_id |-> posts[id].page_id,
                  comment_count |-> commentCountExpr(id),
                  reaction_count |-> reactionCountExpr(id)]
            ELSE [id |-> id, page_id |-> posts[id].page_id,
                  comment_count |-> commentCountExpr(id)])}

\* PostRepository.findByIdWithAccess with options: the access check, then findById.
PostRepository_findByIdWithAccess_rows(id, userId, role, options) ==
    IF ~PostRepository_hasAccess(id, userId, role).value THEN {}
    ELSE PostRepository_findById_rows(id, options)

\* GET /api/posts with query options
ListPosts(caller, options, latest) ==
    Read([NoReq EXCEPT !.op = "ListPosts", !.caller = caller, !.options = options,
            !.queried = {latest},
            !.res = Ok(PostRepository_findAllWithAccess_rows(
                          caller, RoleOf(caller), options, latest))])

\* GET /api/posts/:id with query options
GetPostDetails(caller, id, options) ==
    Read([NoReq EXCEPT !.op = "GetPostDetails", !.caller = caller, !.id = id,
            !.options = options,
            !.res = LET post == PostRepository_findByIdWithAccess_rows(
                                    id, caller, RoleOf(caller), options)
                    IN IF post = {} THEN Err(404, "Post not found or access denied")
                       ELSE Ok(post)])

\* Post p1 with two post-level sentiments (s1 "joy"/"positive", s2
\* "anger"/"negative") created in either order or at the same instant, and a
\* later comment-level sentiment; post p2 without sentiments; u2 holds a
\* grant on p1.
InitPosts ==
    /\ pages = [g \in {"g1"} |-> PageRow]
    /\ users = {"x1", "x2"}
    /\ posts = [p \in {"p1", "p2"} |-> PostRow("g1")]
    /\ \E post_id \in [{"c1", "c2"} -> {"p1", "p2"}] :
         comments = [c \in {"c1", "c2"} |-> CommentRow(post_id[c], "x1")]
    /\ \E t1, t2 \in {0 - 2, 0 - 1} :
         sentiments =
            [s \in {"s1", "s2", "s3"} |->
                CASE s = "s1" -> [PostSentiment("p1", "joy") EXCEPT !.inserted_at = t1]
                                    @@ [sentiment |-> "positive"]
                  [] s = "s2" -> [PostSentiment("p1", "anger") EXCEPT !.inserted_at = t2]
                                    @@ [sentiment |-> "negative"]
                  [] OTHER -> CommentSentiment("c1", "joy") @@ [sentiment |-> "positive"]]
    /\ reactions = [r \in {"r1"} |-> [user_id |-> "x1", post_id |-> "p1", comment_id |-> NULL]]
    /\ seeds = 0
    /\ sessions = auth_sessions
    /\ user_post_access =
         {[auth_user_id |-> "u2", post_id |-> "p1", granted_by |-> "a1", granted_at |-> 0]}
    /\ clock = 0
    /\ last = NoReq

NextPosts ==
    \/ \E p \in DOMAIN posts : Grant("a1", "u1", p)
    \/ \E p \in DOMAIN posts : Revoke("a1", "u1", p)
    \/ \E caller \in Readers, options \in PostQueryOptions, latest \in LatestChoices :
          ListPosts(caller, options, latest)
    \/ \E caller \in Readers, id \in PostIds, options \in PostQueryOptions :
          GetPostDetails(caller, id, options)

SpecPosts == InitPosts /\ [][NextPosts]_vars

\* ------------------------------------------------------------ query options
\* Query-string values of orderBy, orderDirection, limit and offset; NULL is
\* an absent parameter.
OrderByInputs == {NULL, "inserted_at", "comment_count", "bogus", "id; DROP TABLE posts--"}
OrderDirectionInputs == {NULL, "ASC", "asc", "DESC; DELETE FROM users"}
NumberInputs == {NULL, "", "10", "-5", "2.5", "abc", "10abc"}
\* Requests that set the ordering parameters, and requests that set the
\* pagination parameters.
QueryInputs ==
    [limit : {NULL}, offset : {NULL},
     orderBy : OrderByInputs, orderDirection : OrderDirectionInputs]
    \cup [limit : NumberInputs, offset : NumberInputs,
          orderBy : {NULL}, orderDirection : {NULL}]

\* A JavaScript number: NaN, or a value kept in tenths.
NaN == [nan |-> TRUE, tenths |-> 0]
Num(tenths) == [nan |-> FALSE, tenths |-> tenths]

\* Number(value): undefined and non-numeric text give NaN, "" gives 0,
\* decimal text its value.
Number(x) ==
    CASE x = "" -> Num(0)
      [] x = "10" -> Num(100)
      [] x = "-5" -> Num(0 - 50)
      [] x = "2.5" -> Num(25)
      [] OTHER -> NaN

\* parseInt(value, 10): the leading integer of the text, NaN without one.
parseInt(x) ==
    CASE x = "10" -> Num(100)
      [] x = "10abc" -> Num(100)
      [] x = "-5" -> Num(0 - 50)
      [] x = "2.5" -> Num(20)
      [] OTHER -> NaN

\* Number.isFinite(n) && n > -1 ? n : defaultValue
FiniteAboveMinusOne(n, defaultValue) ==
    IF ~n.nan /\ n.tenths > 0 - 10 THEN n ELSE defaultValue

\* parseIntQuery: the default for a non-string or a NaN parse.
parseIntQuery(value, defaultValue) ==
    IF value = NULL THEN defaultValue
    ELSE IF parseInt(value).nan THEN defaultValue
    ELSE parseInt(value)

\* (req.query.x as string) || defaultValue
OrDefault(x, defaultValue) == IF x = NULL \/ x = "" THEN defaultValue ELSE x

\* orderDirection === 'ASC' ? 'ASC' : 'DESC'
AscOrDesc(x) == IF x = "ASC" THEN "ASC" ELSE "DESC"

\* typeof x === 'string' && x.toUpperCase() === 'ASC' ? 'ASC' : 'DESC'
AscOrDescAnyCase(x) == IF x \in {"ASC", "asc"} THEN "ASC" ELSE "DESC"

\* The ORDER BY, LIMIT and OFFSET of an executed list query.
ListQuery(expression, dir, lim, off) ==
    <<expression, dir, lim, off>>

\* GET /api/posts: the route coerces the options, PostRepository.findAllWithAccess
\* switches orderBy to an expression and re-checks the direction.
Query_posts(q) ==
    LET orderBy == IF q.orderBy # NULL THEN q.orderBy ELSE "inserted_at"
    IN ListQuery(CASE orderBy = "posted_at" -> "p.posted_at"
                   [] orderBy = "comment_count" -> "comment_count"
                   [] orderBy = "reaction_count" -> "reaction_count"
                   [] orderBy = "engagement_score" -> "engagement_score"
                   [] orderBy = "content" -> "p.content"
                   [] OTHER -> "p.inserted_at",
                 AscOrDesc(AscOrDesc(q.orderDirection)),
                 FiniteAboveMinusOne(Number(q.limit), Num(1000)),
                 FiniteAboveMinusOne(Number(q.offset), Num(0)))

\* GET /api/pages (includePostStats on): PageRepository.findAllWithAccess.
Query_pages(q) ==
    LET orderBy == IF q.orderBy # NULL THEN q.orderBy ELSE "page_name"
        direction == IF q.orderDirection = "DESC" THEN "DESC" ELSE "ASC"
    IN ListQuery(CASE orderBy \in {"page_name", "page_url", "inserted_at"} ->
                        "pg." \o orderBy
                   [] orderBy = "comment_count" -> "COALESCE(cs.comment_count, 0)"
                   [] OTHER -> "pg.page_name",
                 IF direction = "DESC" THEN "DESC" ELSE "ASC",
                 FiniteAboveMinusOne(Number(q.limit), Num(1000)),
                 FiniteAboveMinusOne(Number(q.offset), Num(0)))

\* GET /api/comments: orderBy and orderDirection go from the query string
\* into "ORDER BY c.${orderBy} ${orderDirection}"; limit 100, offset 0.
Query_comments(q) ==
    ListQuery("c." \o OrDefault(q.orderBy, "inserted_at"),
              OrDefault(q.orderDirection, "DESC"), Num(1000), Num(0))

\* GET /api/sentiments: "ORDER BY s.${orderBy} ${orderDirection}"; limit 100, offset 0.
Query_sentiments(q) ==
    ListQuery("s." \o OrDefault(q.orderBy, "inserted_at"),
              OrDefault(q.orderDirection, "DESC"), Num(1000), Num(0))

\* GET /api/users: "ORDER BY u.${orderBy} ${orderDirection}"; limit
\* min(parsed, 100) when parsed > 0, else 18; offset parsed when >= 0, else 0.
Query_users(q) ==
    LET parsedLimit == parseInt(q.limit)
        parsedOffset == parseInt(q.offset)
    IN ListQuery("u." \o OrDefault(q.orderBy, "inserted_at"),
                 OrDefault(q.orderDirection, "DESC"),
                 IF ~parsedLimit.nan /\ parsedLimit.tenths > 0
                 THEN (IF parsedLimit.tenths < 1000 THEN parsedLimit ELSE Num(1000))
                 ELSE Num(180),
                 IF ~parsedOffset.nan /\ parsedOffset.tenths >= 0 THEN parsedOffset
                 ELSE Num(0))

\* GET /api/analytics/posts/:postId/users: AnalyticsRepository.getUsersByPostId.
Query_usersByPost(q) ==
    LET orderBy == OrDefault(q.orderBy, "comment_count")
    IN ListQuery(CASE orderBy = "username" -> "u.username"
                   [] orderBy = "full_name" -> "u.full_name"
                   [] orderBy = "email" -> "u.email"
                   [] orderBy = "inserted_at" -> "u.inserted_at"
                   [] orderBy = "last_comment_at" -> "last_comment_at"
                   [] OTHER -> "comment_count",
                 AscOrDesc(AscOrDescAnyCase(q.orderDirection)),
                 parseIntQuery(q.limit, Num(1000)), parseIntQuery(q.offset, Num(0)))

\* GET /api/analytics/users/:userId/posts: AnalyticsRepository.getPostsByUserId.
Query_postsByUser(q) ==
    LET orderBy == OrDefault(q.orderBy, "last_comment_at")
    IN ListQuery(CASE orderBy = "page_name" -> "pg.page_name"
                   [] orderBy = "page_url" -> "pg.page_url"
                   [] orderBy = "inserted_at" -> "p.inserted_at"
                   [] orderBy = "posted_at" -> "p.posted_at"
                   [] orderBy = "user_comment_count" -> "user_comment_count"
                   [] OTHER -> "last_comment_at",
                 AscOrDesc(AscOrDescAnyCase(q.orderDirection)),
                 parseIntQuery(q.limit, Num(1000)), parseIntQuery(q.offset, Num(0)))

\* GET /api/analytics/comments-with-sentiment:
\* AnalyticsRepository.getCommentsWithSentiment.
Query_commentsWithSentiment(q) ==
    LET orderBy == OrDefault(q.orderBy, "inserted_at")
    IN ListQuery(CASE orderBy = "sentiment_category" -> "s.sentiment_category"
                   [] orderBy = "username" -> "u.username"
                   [] orderBy = "full_name" -> "u.full_name"
                   [] OTHER -> "c.inserted_at",
                 AscOrDesc(AscOrDescAnyCase(q.orderDirection)),
                 parseIntQuery(q.limit, Num(1000)), parseIntQuery(q.offset, Num(0)))

\* A list request: the query string received and the query executed for it.
QueryResponse(endpoint, q, query) ==
    [NoReq EXCEPT !.op = "query", !.id = endpoint, !.options = q, !.queried = {query}]

\* GET /api/posts
ListPostsQuery ==
    \E q \in QueryInputs :
        /\ last' = QueryResponse("posts", q, Query_posts(q))
        /\ UNCHANGED <<content, sessions, user_post_access, clock>>

\* GET /api/pages
ListPagesQuery ==
    \E q \in QueryInputs :
        /\ last' = QueryResponse("pages", q, Query_pages(q))
        /\ UNCHANGED <<content, sessions, user_post_access, clock>>

\* GET /api/comments
ListCommentsQuery ==
    \E q \in QueryInputs :
        /\ last' = QueryResponse("comments", q, Query_comments(q))
        /\ UNCHANGED <<content, sessions, user_post_access, clock>>

\* GET /api/sentiments
ListSentimentsQuery ==
    \E q \in QueryInputs :
        /\ last' = QueryResponse("sentiments", q, Query_sentiments(q))
        /\ UNCHANGED <<content, sessions, user_post_access, clock>>

\* GET /api/users
ListUsersQuery ==
    \E q \in QueryInputs :
        /\ last' = QueryResponse("users", q, Query_users(q))
        /\ UNCHANGED <<content, sessions, user_post_access, clock>>

\* GET /api/analytics/posts/:postId/users
UsersByPostQuery ==
    \E q \in QueryInputs :
        /\ last' = QueryResponse("usersByPost", q, Query_usersByPost(q))
        /\ UNCHANGED <<content, sessions, user_post_access, clock>>

\* GET /api/analytics/users/:userId/posts
PostsByUserQuery ==
    \E q \in QueryInputs :
        /\ last' = QueryResponse("postsByUser", q, Query_postsByUser(q))
        /\ UNCHANGED <<content, sessions, user_post_access, clock>>

\* GET /api/analytics/posts/:postId/comments-with-sentiment
CommentsWithSentimentQuery ==
    \E q \in QueryInputs :
        /\ last' = QueryResponse("commentsWithSentiment", q, Query_commentsWithSentiment(q))
        /\ UNCHANGED <<content, sessions, user_post_access, clock>>

NextQuery ==
    \/ ListPostsQuery
    \/ ListPagesQuery
    \/ ListCommentsQuery
    \/ ListSentimentsQuery
    \/ ListUsersQuery
    \/ UsersByPostQuery
    \/ PostsByUserQuery
    \/ CommentsWithSentimentQuery

SpecQuery == InitStore /\ [][NextQuery]_vars

\* -------------------------------------------------------------- page reader
\* PageQueryOptions of the requests modelled: includePostStats and the
\* sentiment filter (requests without page_url and page_name).
PageQueryOptions == [includePostStats : BOOLEAN, sentiment : {NULL, "positive", "Negative"}]

\* WITH accessible_posts AS (...) without the join to user_post_access.
accessible_posts_allPosts(userId, role) ==
    {[id |-> p, page_id |-> posts[p].page_id, grant |-> NULL] : p \in DOMAIN posts}

\* WITH accessible_posts AS (SELECT ... FROM posts p [INNER JOIN user_post_access
\*   upa ON upa.post_id = p.id AND upa.auth_user_id = $user]): one row per
\* post for an admin, one per joined grant row otherwise.
accessible_posts(userId, role) ==
    IF role = "admin"
    THEN {[id |-> p, page_id |-> posts[p].page_id, grant |-> NULL] : p \in DOMAIN posts}
    ELSE {[id |-> g.post_id, page_id |-> posts[g.post_id].page_id, grant |-> g] :
             g \in {g \in user_post_access :
                      g.post_id \in DOMAIN posts /\ g.auth_user_id = userId}}

\* ps: COUNT(DISTINCT ap.id) FROM accessible_posts ap GROUP BY ap.page_id
Page_post_count(ap, g) == Cardinality({a.id : a \in {a \in ap : a.page_id = g}})

\* cs: COUNT(c.id) FROM accessible_posts ap JOIN comments c ON c.post_id = ap.id
Page_comment_count(ap, g) ==
    Cardinality({<<a, c>> \in ap \X DOMAIN comments :
                    a.page_id = g /\ comments[c].post_id = a.id})

\* rs: COUNT(r.id) FROM accessible_posts ap JOIN reactions r ON r.post_id = ap.id
Page_reaction_count(ap, g) ==
    Cardinality({<<a, r>> \in ap \X DOMAIN reactions :
                    a.page_id = g /\ reactions[r].post_id = a.id})

\* ss: the rows of accessible_posts ap JOIN sentiments s ON s.post_id = ap.id
Page_sentimentRows(ap, g) ==
    {<<a, x>> \in ap \X DOMAIN sentiments : a.page_id = g /\ sentiments[x].post_id = a.id}

\* COUNT(*) FILTER (WHERE LOWER(s.sentiment_category) = category)
Page_sentimentCount(ap, g, category) ==
    Cardinality({ax \in Page_sentimentRows(ap, g) :
                    LOWER(sentiments[ax[2]].sentiment_category) = category})

\* The WHERE clauses of the sentiment filter: the category has a row and is
\* no rarer than the other two.
Page_sentimentFilter(ap, g, options) ==
    LET normalized == IF options.sentiment = NULL THEN NULL ELSE LOWER(options.sentiment)
        others == {"positive", "neutral", "negative"} \ {normalized}
    IN (options.sentiment # NULL /\ options.includePostStats
        /\ normalized \in {"positive", "neutral", "negative"}) =>
          /\ Page_sentimentCount(ap, g, normalized) > 0
          /\ \A o \in others :
                Page_sentimentCount(ap, g, normalized) >= Page_sentimentCount(ap, g, o)

\* One result row, as the row mapper builds it.
PageWithStats(ap, g, options) ==
    IF options.includePostStats
    THEN [id |-> g,
          post_count |-> Page_post_count(ap, g),
          comment_count |-> Page_comment_count(ap, g),
          reaction_count |-> Page_reaction_count(ap, g),
          engagement_score |-> Page_comment_count(ap, g) + Page_reaction_count(ap, g),
          sentiment_summary |->
             [total |-> Cardinality(Page_sentimentRows(ap, g)),
              positive |-> Page_sentimentCount(ap, g, "positive"),
              neutral |-> Page_sentimentCount(ap, g, "neutral"),
              negative |-> Page_sentimentCount(ap, g, "negative")]]
    ELSE [id |-> g]

\* PageRepository.findAllWithAccess: FROM pages pg LEFT JOIN ps, cs, rs, ss
\* WHERE [sentiment filter] [AND EXISTS (SELECT 1 FROM accessible_posts ap
\* WHERE ap.page_id = pg.id)].
PageRepository_findAllWithAccess(userId, role, options) ==
    LET ap == accessible_posts(userId, role)
    IN {PageWithStats(ap, g, options) :
           g \in {g \in DOMAIN pages :
                    /\ Page_sentimentFilter(ap, g, options)
                    /\ role # "admin" => \E a \in ap : a.page_id = g}}

\* GET /api/pages: without includePostStats the route deletes post_count,
\* last_post_at, comment_count and sentiment_summary, which the mapper never set.
ListPages(caller, options) ==
    Read([NoReq EXCEPT !.op = "ListPages", !.caller = caller, !.options = options,
            !.res = Ok(PageRepository_findAllWithAccess(caller, RoleOf(caller), options))])

\* Three pages: g1 owns p1 and p2, g2 owns p4, g3 owns no post.  Every post
\* has a comment; p1 and p4 have a reaction, c2 has one too; p1 and p4 have a
\* positive and p2 a negative post sentiment, and c1 has a comment sentiment.
InitPages ==
    /\ pages = [g \in {"g1", "g2", "g3"} |-> PageRow]
    /\ users = {"x1", "x2"}
    /\ posts = [p \in {"p1", "p2", "p4"} |-> PostRow(IF p = "p4" THEN "g2" ELSE "g1")]
    /\ comments = [c \in {"c1", "c2", "c4"} |->
                     CommentRow(CASE c = "c1" -> "p1" [] c = "c2" -> "p2" [] OTHER -> "p4",
                                "x1")]
    /\ sentiments = [x \in {"s1", "s2", "s3", "s4"} |->
                       CASE x = "s1" -> PostSentiment("p1", "Positive")
                         [] x = "s2" -> PostSentiment("p2", "negative")
                         [] x = "s3" -> CommentSentiment("c1", "negative")
                         [] OTHER -> PostSentiment("p4", "positive")]
    /\ reactions = [r \in {"r1", "r2", "r4"} |->
                      CASE r = "r1" -> [user_id |-> "x1", post_id |-> "p1", comment_id |-> NULL]
                        [] r = "r2" -> [user_id |-> "x2", post_id |-> NULL, comment_id |-> "c2"]
                        [] OTHER -> [user_id |-> "x1", post_id |-> "p4", comment_id |-> NULL]]
    /\ seeds = 0
    /\ sessions = auth_sessions
    /\ user_post_access = {}
    /\ clock = 0
    /\ last = NoReq

NextPages ==
    \/ \E u \in {"u1", "u2"}, p \in {"p1", "p2", "p4"} : Grant("a1", u, p)
    \/ \E u \in {"u1", "u2"}, p \in {"p1", "p2", "p4"} : Revoke("a1", u, p)
    \/ \E caller \in Readers, options \in PageQueryOptions : ListPages(caller, options)

SpecPages == InitPages /\ [][NextPages]_vars

\* ----------------------------------------------------------------- sessions
\* Bearer tokens of the session requests: none, a forged one, and the tokens
\* jwt.sign issues to a1 and u1.
SessionTokens == {NULL, "t_bad"} \cup {jwt_sign(u, i) : u \in LoginUsers, i \in 0..MaxClock}

\* POST /api/auth/login: AuthService.login signs a token for the user found
\* and stores a session for it that expires in seven days; wrong credentials
\* answer 401.
Login(userId, passwordValid) ==
    /\ IF passwordValid
       THEN LET token == jwt_sign(userId, clock)
            IN /\ sessions' = AuthRepository_createSession(
                                  sessions, userId, token, clock + Days(7))
               /\ last' = [NoReq EXCEPT !.op = "login", !.user = userId, !.token = token,
                                        !.at = clock, !.res = Ok({token})]
       ELSE /\ sessions' = sessions
            /\ last' = [NoReq EXCEPT !.op = "login", !.user = userId, !.at = clock,
                                     !.res = Err(401, "Login failed")]
    /\ UNCHANGED <<content, user_post_access, clock>>

\* POST /api/auth/logout behind authenticateToken: AuthService.logout deletes
\* the sessions of the token.
Logout(token) ==
    LET a == authenticateToken(token)
    IN /\ sessions' = IF a.res # {} THEN sessions
                      ELSE AuthRepository_deleteSession(sessions, token)
       /\ last' = [NoReq EXCEPT !.op = "logout", !.token = token, !.user = UserIdOf(a.user),
                                !.at = clock,
                                !.res = IF a.res # {} THEN CHOOSE r \in a.res : TRUE
                                        ELSE Ok({})]
       /\ UNCHANGED <<content, user_post_access, clock>>

\* GET /api/auth/me behind authenticateToken: AuthService.getCurrentUser
\* verifies the token again and looks the user up.
GetCurrentUser(token) ==
    LET a == authenticateToken(token)
        payload == AuthService_verifyToken(token)
        user == IF payload = {} THEN {}
                ELSE AuthRepository_findById((CHOOSE p \in payload : TRUE).userId)
    IN Read([NoReq EXCEPT !.op = "me", !.token = token, !.user = UserIdOf(a.user),
                          !.at = clock,
                          !.res = IF a.res # {} THEN CHOOSE r \in a.res : TRUE
                                  ELSE IF user = {}
                                  THEN Err(401, "Failed to get current user")
                                  ELSE Ok(user)])

\* Logins, logouts and authenticated requests while the clock advances.
NextSession ==
    \/ \E u \in LoginUsers, passwordValid \in BOOLEAN : Login(u, passwordValid)
    \/ \E token \in SessionTokens : Logout(token)
    \/ \E token \in SessionTokens : GetCurrentUser(token)
    \/ Tick

SpecSession == InitStore /\ [][NextSession]_vars

\* ------------------------------------------------------------------ claims
HasGrant(u, p) == \E g \in user_post_access : g.auth_user_id = u /\ g.post_id = p

IsAdmin(caller) == RoleOf(caller) = "admin"

\* The post a sentiment belongs to: its own, or its comment's.
OwningPost(s) ==
    IF sentiments[s].post_id # NULL THEN sentiments[s].post_id ELSE JoinedCommentPost(s)

\* C1: the unfiltered post list of a non-admin contains an existing post iff
\* a grant row (caller, post) exists at the read; an admin's list contains
\* every post.
C1_PostListIffGrant ==
    last.op = "GetPosts" =>
        \A P \in DOMAIN posts :
            IF IsAdmin(last.caller)
            THEN last.res.data[P] > 0
            ELSE (last.res.data[P] > 0) <=> HasGrant(last.caller, P)

C1_Witness ==
    /\ last.op = "GetPosts" /\ last.caller = "u1"
    /\ "p2" \in DOMAIN posts
    /\ HasGrant("u1", "p1") /\ ~HasGrant("u1", "p2") /\ HasGrant("u2", "p2")
    /\ last.res.data["p1"] = 1 /\ last.res.data["p2"] = 0

\* C2: the sentiment list of a non-admin holds a sentiment only if the caller
\* has a grant on the sentiment's post, or on the post of its comment.
C2_SentimentListOnlyOwnGrants ==
    (last.op = "GetSentiments" /\ ~IsAdmin(last.caller)) =>
        \A s \in DOMAIN sentiments :
            last.res.data[s] > 0 => HasGrant(last.caller, OwningPost(s))

\* C3: a comment of post P is returned to a caller by the comment list, the
\* comment get-by-id and the post's comments endpoint iff the post reader
\* returns P to that caller.
C3_CommentVisibleIffPost ==
    last.op \in {"GetComments", "GetCommentById", "GetPostComments"} =>
        \A c \in DOMAIN comments :
            LET P == comments[c].post_id
                visible ==
                    PostRepository_findAllWithAccess(last.caller, RoleOf(last.caller))[P] > 0
            IN /\ last.op = "GetComments" => ((last.res.data[c] > 0) <=> visible)
               /\ (last.op = "GetCommentById" /\ last.id = c) =>
                      ((last.res.status = 200) <=> visible)
               /\ (last.op = "GetPostComments" /\ last.id = P) =>
                      ((last.res.status = 200 /\ last.res.data[c] > 0) <=> visible)

C3_Witness ==
    /\ last.op = "GetComments" /\ last.caller = "u1"
    /\ comments["c1"].post_id = "p1" /\ comments["c2"].post_id = "p2"
    /\ HasGrant("u1", "p1") /\ ~HasGrant("u1", "p2") /\ HasGrant("u2", "p2")
    /\ last.res.data["c1"] = 1 /\ last.res.data["c2"] = 0

\* C4: the post access predicate is true for role admin without querying the
\* grant store, and for any other role is true iff a grant row
\* (userId, postId) exists.
C4_CanAccessPost ==
    last.op \in {"PostHasAccess", "AnalyticsHasPostAccess"} =>
        IF IsAdmin(last.caller)
        THEN last.value /\ last.queried = {}
        ELSE last.value <=> HasGrant(last.caller, last.id)

C4_Witness ==
    /\ last.op = "PostHasAccess" /\ last.caller = "a1" /\ last.id = "p1"
    /\ user_post_access # {} /\ ~HasGrant("a1", "p1")
    /\ last.value /\ last.queried = {}

\* C5: get-by-id of a post, comment or sentiment by a non-admin without a
\* grant on the owning post yields no row, and the response equals the one
\* the same caller gets for an id that resolves to no row.
C5_DenialLooksLikeMissing ==
    /\ (/\ last.op = "GetPostById" /\ ~IsAdmin(last.caller)
        /\ last.id \in DOMAIN posts /\ ~HasGrant(last.caller, last.id)) =>
           /\ "p3" \notin DOMAIN posts
           /\ last.res.status = 404 /\ last.res.data = {}
           /\ last.res = Route_getPostById(last.caller, "p3")
    /\ (/\ last.op = "GetCommentById" /\ ~IsAdmin(last.caller)
        /\ last.id \in DOMAIN comments
        /\ ~HasGrant(last.caller, comments[last.id].post_id)) =>
           /\ "c3" \notin DOMAIN comments
           /\ last.res.status = 404 /\ last.res.data = {}
           /\ last.res = Route_getCommentById(last.caller, "c3")
    /\ (/\ last.op = "GetSentimentById" /\ ~IsAdmin(last.caller)
        /\ last.id \in DOMAIN sentiments
        /\ ~HasGrant(last.caller, OwningPost(last.id))) =>
           /\ "s3" \notin DOMAIN sentiments
           /\ last.res.status = 404 /\ last.res.data = {}
           /\ last.res = Route_getSentimentById(last.caller, "s3")

C5_Witness ==
    /\ last.op = "GetSentimentById" /\ last.caller = "u1" /\ last.id = "s1"
    /\ ~HasGrant("u1", OwningPost("s1")) /\ HasGrant("u2", OwningPost("s1"))
    /\ HasGrant("u1", "p1")
    /\ last.res.status = 404

AccessChecks == {"PostHasAccess", "AnalyticsHasPostAccess", "CommentHasAccess",
                 "SentimentHasAccess"}

\* The id of the last access check resolves to no row of its table.
ResolvesToNoRow ==
    \/ last.op \in {"PostHasAccess", "AnalyticsHasPostAccess"} /\ last.id \notin DOMAIN posts
    \/ last.op = "CommentHasAccess" /\ last.id \notin DOMAIN comments
    \/ last.op = "SentimentHasAccess" /\ last.id \notin DOMAIN sentiments

C7_GrantUpsert ==
    /\ \A u \in AuthUserIds, p \in PostIds :
          Cardinality(RowsOf(user_post_access, u, p)) <= 1
    /\ (last.op = "grant" /\ last.user \in DOMAIN auth_users /\ last.id \in DOMAIN posts) =>
          /\ last.res.status = 200
          /\ RowsOf(user_post_access, last.user, last.id) =
                {[auth_user_id |-> last.user, post_id |-> last.id,
                  granted_by |-> last.caller, granted_at |-> last.at]}

\* A re-grant: the row was there, and an older grant by the other admin remains.
C7_Witness ==
    /\ last.op = "grant" /\ last.value
    /\ last.caller = "a2" /\ last.at = 1 /\ last.user = "u1" /\ last.id = "p1"
    /\ \E g \in user_post_access : g.auth_user_id = "u2" /\ g.granted_by = "a1"
                                   /\ g.granted_at = 0
    /\ RowsOf(user_post_access, "u1", "p1") =
          {[auth_user_id |-> "u1", post_id |-> "p1", granted_by |-> "a2", granted_at |-> 1]}

\* C8: a revoke succeeds, removes exactly the rows of its own pair, and so
\* leaves the store unchanged when the pair has no row.
C8_RevokeFrame ==
    [][last'.op = "revoke" =>
          /\ last'.res.status = 200
          /\ (RowsOf(user_post_access, last'.user, last'.id) = {} =>
                 user_post_access' = user_post_access)
          /\ \A g \in user_post_access :
                 (g.auth_user_id # last'.user \/ g.post_id # last'.id) =>
                     g \in user_post_access'
          /\ user_post_access' \subseteq user_post_access
          /\ RowsOf(user_post_access', last'.user, last'.id) = {}]_vars

\* A revoke that met no row, with grants of other pairs in the store.
C8_Witness ==
    /\ last.op = "revoke" /\ ~last.value /\ last.res.status = 200
    /\ last.user = "u1" /\ last.id = "p1"
    /\ HasGrant("u1", "p2") /\ HasGrant("u2", "p1")

BulkOps == {"grantBulkPost", "grantBulkUser"}

\* A pair names a user and a post that both exist.
ValidPair(pair) == pair[1] \in DOMAIN auth_users /\ pair[2] \in DOMAIN posts

\* Position of the first pair with a missing user or post, 0 when none.
FirstInvalid(pairs) ==
    IF \A i \in 1..Len(pairs) : ValidPair(pairs[i]) THEN 0
    ELSE CHOOSE k \in 1..Len(pairs) :
            ~ValidPair(pairs[k]) /\ \A i \in 1..(k - 1) : ValidPair(pairs[i])

\* C9 as stated: a bulk grant naming a missing user or post fails and leaves
\* no grant of that batch behind: the store is as before the call.
C9_BulkAllOrNothing ==
    [][(last'.op \in BulkOps /\ FirstInvalid(last'.items) > 0) =>
          /\ last'.res.status # 200
          /\ user_post_access' = user_post_access]_vars

\* C10: when the item at position k of a bulk grant fails, the call fails,
\* every pair before k has its row as granted by this call, and the rows of
\* every other pair are as they were.
C10_BulkPartialCommit ==
    [][(last'.op \in BulkOps /\ FirstInvalid(last'.items) > 0) =>
          LET k == FirstInvalid(last'.items)
              before == {last'.items[i] : i \in 1..(k - 1)}
          IN /\ last'.res.status = 500
             /\ \A pair \in before :
                   RowsOf(user_post_access', pair[1], pair[2]) =
                      {[auth_user_id |-> pair[1], post_id |-> pair[2],
                        granted_by |-> last'.caller, granted_at |-> last'.at]}
             /\ \A g \in user_post_access \cup user_post_access' :
                   <<g.auth_user_id, g.post_id>> \notin before =>
                      (g \in user_post_access <=> g \in user_post_access')]_vars

\* u1 bulk-granted p1, p3, p2 with p3 missing: p1 is granted by this call,
\* p2 is not, and the call failed.
C10_Witness ==
    /\ last.op = "grantBulkUser" /\ last.user = "u1"
    /\ last.items = <<<<"u1", "p1">>, <<"u1", "p3">>, <<"u1", "p2">>>>
    /\ last.res.status = 500
    /\ \E g \in user_post_access :
          g.auth_user_id = "u1" /\ g.post_id = "p1" /\ g.granted_by = "a1"
    /\ ~HasGrant("u1", "p2")

\* The reference a failing pair trips over: its user if missing, else its post.
InvalidRef(pair) == IF pair[1] \notin DOMAIN auth_users THEN pair[1] ELSE pair[2]

\* C11: the error of a bulk grant rejected for a missing user or post
\* identifies the invalid reference: a bulk grant that trips over another
\* reference gets another response.
C11_ErrorIdentifiesReference ==
    (last.op \in BulkOps /\ last.res.status = 500 /\ FirstInvalid(last.items) > 0) =>
        \A postIds \in BulkLists({"p2", "p3"}) :
            LET pairs == PairsToUser("u1", postIds)
                k == FirstInvalid(pairs)
            IN (k > 0 /\ InvalidRef(pairs[k]) # InvalidRef(last.items[FirstInvalid(last.items)]))
                  => GrantResponse(GrantEach(user_post_access, pairs, last.caller,
                                             last.at, 1)) # last.res

AccessOps == {"grant", "revoke", "getUserPosts", "getPostUsers",
              "grantBulkPost", "grantBulkUser"}

\* The token proves an identity: well signed, with a live session row.
Authenticated(token) ==
    token \in DOMAIN jwt_payloads /\ \E row \in auth_sessions : row.token = token

AdminCaller(token) == Authenticated(token) /\ jwt_payloads[token].role = "admin"

\* C12 as stated: a grant-management request of a caller who is not an
\* authenticated admin is rejected with 401 when the request proves no
\* identity and with 403 when the identity is not an admin, and the grant
\* store stays as it is.
C12_AdminOnly401 ==
    [][(last'.op \in AccessOps /\ ~AdminCaller(last'.token)) =>
          /\ last'.res.status = (IF Authenticated(last'.token) THEN 403 ELSE 401)
          /\ user_post_access' = user_post_access]_vars

\* C12 amended: a grant-management request succeeds only for an authenticated
\* admin; any other is rejected without data and leaves the grant store
\* unchanged: 401 when it carries no token, 403 when its token is invalid,
\* expired or without session, and 403 when its caller is not an admin.
C12_AdminOnly ==
    [][last'.op \in AccessOps =>
          /\ last'.res.status = 200 => AdminCaller(last'.token)
          /\ ~AdminCaller(last'.token) =>
                /\ last'.res.status = (IF last'.token = NULL THEN 401 ELSE 403)
                /\ last'.res.data = {}
                /\ user_post_access' = user_post_access]_vars

\* The non-admin u1 asked to grant itself p2 while holding p1: rejected.
C12_Witness ==
    /\ last.op = "grant" /\ last.token = "t_u1" /\ last.user = "u1" /\ last.id = "p2"
    /\ "p2" \in DOMAIN posts
    /\ last.res.status = 403
    /\ HasGrant("u1", "p1") /\ ~HasGrant("u1", "p2")

\* The posts a caller holds a grant on.
GrantedPosts(u) == {g.post_id : g \in {h \in user_post_access : h.auth_user_id = u}}

\* The caller a token stands for, NULL when it proves no identity.
CallerOf(token) == IF Authenticated(token) THEN jwt_payloads[token].userId ELSE NULL

UserReads == {"GetUsers", "GetUserById"}

\* C13: what the User reader attaches to the users it returns to a non-admin
\* caller covers only comments on posts granted to that caller: every
\* attached comment is on a granted post, and the stats count no more
\* comments than the user has on granted posts.
C13_UserReaderAccessControlled ==
    (last.op \in UserReads /\ Authenticated(last.token) /\ ~AdminCaller(last.token)) =>
        \A row \in last.res.data :
            LET visible == {c \in CommentsOfUser(row.id) :
                               comments[c].post_id \in GrantedPosts(CallerOf(last.token))}
            IN /\ \A c \in row.comments : c.id \in visible
               /\ \A st \in row.stats : st.total_comments <= Cardinality(visible)

\* C14: a request to /api/users/* without a valid token with a live session
\* is rejected and returns no user data.
C14_UsersRequireJwt ==
    (last.op \in UserReads /\ ~Authenticated(last.token)) =>
        /\ last.res.status \in {401, 403}
        /\ last.res.data = {}

\* C15: content rows change only in a seed or a clear, and a seed or a clear
\* takes effect only for an authenticated admin.
C15_ContentOnlyByAdminSeed ==
    [][/\ content' # content => last'.op \in {"seed", "clear"}
       /\ (last'.op \in {"seed", "clear"} /\ ~AdminCaller(last'.token)) =>
             (last'.res.status \in {401, 403} /\ content' = content)]_vars

\* C19: every sentiment row has exactly one of post_id and comment_id set.
C19_SentimentTargetExclusive ==
    \A s \in DOMAIN sentiments :
        (sentiments[s].post_id # NULL) # (sentiments[s].comment_id # NULL)

\* After a second seeding: the seeded rows of both kinds are in the table.
C19_Witness ==
    /\ last.op = "seed" /\ last.res.status = 200 /\ seeds = 2
    /\ \E s \in DOMAIN sentiments :
          sentiments[s].post_id \in DOMAIN posts /\ sentiments[s].comment_id = NULL
    /\ \E s \in DOMAIN sentiments :
          sentiments[s].post_id = NULL /\ sentiments[s].comment_id \in DOMAIN comments
    /\ Cardinality(DOMAIN sentiments) = 5

\* Every pair (U, P) of SpecRevoke without a grant row has been revoked, and
\* each request is one step: a read that follows the revocation step began
\* after the revocation committed.
RevokedPosts(U) == {P \in DOMAIN posts : ~HasGrant(U, P)}

\* C16: a read by a non-admin U that begins after a revoke of (U, P) has
\* committed returns neither P, nor a comment of P, nor a sentiment of P or of
\* a comment of P.
C16_NoReadAfterRevoke ==
    (last.caller \in {"u1", "u2"} /\ last.res.status = 200) =>
        \A P \in RevokedPosts(last.caller) :
            /\ last.op = "GetPosts" => last.res.data[P] = 0
            /\ last.op = "GetPostById" => \A row \in last.res.data : row.id # P
            /\ last.op \in {"GetComments", "GetPostComments"} =>
                   \A c \in DOMAIN comments :
                       comments[c].post_id = P => last.res.data[c] = 0
            /\ last.op = "GetCommentById" => \A row \in last.res.data : row.post_id # P
            /\ last.op = "GetSentiments" =>
                   \A s \in DOMAIN sentiments : OwningPost(s) = P => last.res.data[s] = 0
            /\ last.op = "GetSentimentById" =>
                   \A row \in last.res.data : OwningPost(row.id) # P

\* The aggregations that name one post.
PostAggregations ==
    {"GetUsersByPostId", "GetPostSentiments", "GetCommentSentimentsByPostId",
     "GetPostSentimentSummary", "GetCommentsWithSentiment", "GetUserActivityOnPost"}

\* C18: a post-targeted aggregation called by a non-admin without a grant on
\* the post answers with an empty list or null: no user, comment, sentiment
\* or count of that post.
C18_AggregationDeniedWithoutGrant ==
    (/\ last.op \in PostAggregations
     /\ last.id # NULL
     /\ ~IsAdmin(last.caller)
     /\ ~HasGrant(last.caller, last.id)) =>
        last.res = Ok({})

C18_Witness ==
    /\ last.op = "GetUsersByPostId" /\ last.caller = "u1" /\ last.id = "p1"
    /\ ~HasGrant("u1", "p1") /\ HasGrant("u1", "p2") /\ HasGrant("u2", "p1")
    /\ \E c \in DOMAIN comments : comments[c].post_id = "p1"
    /\ last.res.data = {}

\* The data of the posts granted to U: U's grant rows, their posts, those
\* posts' pages, comments and reactions, and the sentiments of both.
GrantedData(db, U) ==
    LET upa == {g \in db.user_post_access : g.auth_user_id = U}
        P == {p \in DOMAIN db.posts : \E g \in upa : g.post_id = p}
        C == {c \in DOMAIN db.comments : db.comments[c].post_id \in P}
        S == {s \in DOMAIN db.sentiments :
                db.sentiments[s].post_id \in P \/ db.sentiments[s].comment_id \in C}
        R == {r \in DOMAIN db.reactions :
                db.reactions[r].post_id \in P \/ db.reactions[r].comment_id \in C}
        G == {g \in DOMAIN db.pages : \E p \in P : db.posts[p].page_id = g}
    IN [pages |-> [g \in G |-> db.pages[g]],
        posts |-> [p \in P |-> db.posts[p]],
        comments |-> [c \in C |-> db.comments[c]],
        sentiments |-> [s \in S |-> db.sentiments[s]],
        reactions |-> [r \in R |-> db.reactions[r]],
        user_post_access |-> upa]

\* C17: the dashboard of a non-admin U is a function of the data of U's
\* granted posts alone (it is the dashboard of the database cut down to that
\* data, so two databases that agree on it give the same result); an admin's
\* dashboard counts every post and does not depend on the grants.
C17_DashboardOnlyGrantedData ==
    last.op = "GetDashboardStats" =>
        IF IsAdmin(last.caller)
        THEN /\ last.res.data.totalPosts = Cardinality(DOMAIN posts)
             /\ last.res.data =
                   AnalyticsRepository_getDashboardStats(
                       [Database EXCEPT !.user_post_access = {}],
                       last.caller, "admin", last.at)
        ELSE last.res.data =
                 AnalyticsRepository_getDashboardStats(
                     GrantedData(Database, last.caller),
                     last.caller, RoleOf(last.caller), last.at)

C17_Witness ==
    /\ last.op = "GetDashboardStats" /\ last.caller = "u1"
    /\ HasGrant("u1", "p1") /\ ~HasGrant("u1", "p2") /\ HasGrant("u2", "p2")
    /\ last.res.data.totalPosts = 1
    /\ last.res.data.pageSummary.totalPages = 1
    /\ last.res.data.postSummary.uniqueCommenters = 1
    /\ last.res.data.positivePosts = 1 /\ last.res.data.negativePosts = 0

\* The post-level sentiments the caller's trend query matches in the hour of
\* one trend date, per category.
MatchingRows(date, category) ==
    {s \in Dashboard_trendRows(Database, last.caller, RoleOf(last.caller), last.at) :
        /\ DATE_TRUNC_hour(sentiments[s].inserted_at) = DATE_TRUNC_hour(date)
        /\ LOWER(sentiments[s].sentiment_category) = category}

BucketsOf(s) ==
    {k \in 1..24 :
        DATE_TRUNC_hour(last.res.data.sentimentTrend[k].date)
            = DATE_TRUNC_hour(sentiments[s].inserted_at)}

\* The value a trend entry carries for a category.
TrendValue(k, category) ==
    CASE category = "positive" -> last.res.data.sentimentTrend[k].positive
      [] category = "negative" -> last.res.data.sentimentTrend[k].negative
      [] OTHER -> last.res.data.sentimentTrend[k].neutral

\* C21: for every post-level sentiment visible to the caller, created in the
\* trailing 24 hours with category positive, negative or neutral (ignoring
\* case), the trend bucket of its truncated hour carries the number of such
\* rows of that hour and category, at whatever time the dashboard is requested.
C21_TrendBucketCountsRows ==
    last.op = "GetDashboardStats" =>
        \A s \in Dashboard_trendRows(Database, last.caller, RoleOf(last.caller), last.at) :
            LET category == LOWER(sentiments[s].sentiment_category)
            IN category \in {"positive", "negative", "neutral"} =>
                  \A k \in BucketsOf(s) :
                      TrendValue(k, category)
                          = Cardinality(MatchingRows(sentiments[s].inserted_at, category))

\* The sum of the count column over the by_category rows of a summary.
RECURSIVE SumCounts(_)
SumCounts(rows) ==
    IF rows = {} THEN 0
    ELSE LET row == CHOOSE x \in rows : TRUE
         IN row.count + SumCounts(rows \ {row})

\* The sentiments targeting post P, and those targeting a comment on P.
PostLevelSentiments(P) ==
    {s \in DOMAIN sentiments : sentiments[s].post_id = P /\ sentiments[s].comment_id = NULL}
CommentLevelSentiments(P) ==
    {s \in DOMAIN sentiments :
        /\ sentiments[s].comment_id \in DOMAIN comments
        /\ comments[sentiments[s].comment_id].post_id = P}

\* C22: the sentiment summary of post P counts the sentiments targeting P and
\* the sentiments targeting P's comments: total_sentiments is the number of
\* both, and the per-category counts sum to it.
C22_SummaryCountsPostAndComments ==
    last.op = "GetPostSentimentSummary" =>
        \A summary \in last.res.data :
            /\ summary.total.total_sentiments
                  = Cardinality(PostLevelSentiments(last.id) \cup CommentLevelSentiments(last.id))
            /\ SumCounts(summary.by_category) = summary.total.total_sentiments

\* C23: every post returned by the access-controlled post list and get-by-id
\* carries comment_count >= 0, reaction_count >= 0 and engagement_score =
\* comment_count + reaction_count, whatever include flags were requested.
C23_PostCountsAlwaysPresent ==
    (last.op \in {"ListPosts", "GetPostDetails"} /\ last.res.status = 200) =>
        \A post \in last.res.data :
            /\ {"comment_count", "reaction_count", "engagement_score"} \subseteq DOMAIN post
            /\ post.comment_count >= 0
            /\ post.reaction_count >= 0
            /\ post.engagement_score = post.comment_count + post.reaction_count

\* A sentiment row's category or label equals v, ignoring case.
MatchesFilter(s, v) ==
    \/ LOWER(sentiments[s].sentiment_category) = LOWER(v)
    \/ LOWER(sentiments[s].sentiment) = LOWER(v)

\* The ids of the posts in a post list response.
ListedPosts == {post.id : post \in last.res.data}

QueryOrderExpression(query) == query[1]
QueryDirection(query) == query[2]
QueryLimit(query) == query[3]
QueryOffset(query) == query[4]

\* The expressions the readers' allow-lists and defaults can produce.
AllowedOrderExpressions ==
    {"p.inserted_at", "p.posted_at", "p.content", "comment_count", "reaction_count",
     "engagement_score", "pg.page_name", "pg.page_url", "pg.inserted_at",
     "COALESCE(cs.comment_count, 0)", "c.inserted_at", "s.inserted_at", "u.inserted_at",
     "u.username", "u.full_name", "u.email", "last_comment_at", "user_comment_count",
     "s.sentiment_category"}

\* C25: for every reader and aggregation and every orderBy and orderDirection
\* text, the ORDER BY of the executed query is an allow-listed expression and
\* its direction is exactly ASC or DESC.
C25_OrderByAllowListed ==
    last.op = "query" =>
        \A query \in last.queried :
            /\ QueryOrderExpression(query) \in AllowedOrderExpressions
            /\ QueryDirection(query) \in {"ASC", "DESC"}

\* An absent parameter, and texts that denote no integer >= 0.
InvalidNumberInputs == {NULL, "abc", "-5"}

\* C26: for every list and aggregation endpoint and every input, limit and
\* offset of the executed query are integers >= 0; an absent or invalid limit
\* becomes 100 and an absent or invalid offset becomes 0.
C26_LimitOffsetNonNegativeIntegers ==
    last.op = "query" =>
        \A query \in last.queried :
            /\ ~QueryLimit(query).nan /\ QueryLimit(query).tenths >= 0
               /\ QueryLimit(query).tenths % 10 = 0
            /\ ~QueryOffset(query).nan /\ QueryOffset(query).tenths >= 0
               /\ QueryOffset(query).tenths % 10 = 0
            /\ last.options.limit \in InvalidNumberInputs => QueryLimit(query) = Num(1000)
            /\ last.options.offset \in InvalidNumberInputs => QueryOffset(query) = Num(0)

\* The posts of page g the caller can access: all of them for an admin, the
\* granted ones otherwise.
AccessiblePostsOfPage(caller, g) ==
    {p \in DOMAIN posts : posts[p].page_id = g /\ (IsAdmin(caller) \/ HasGrant(caller, p))}

\* C27: every page listed for a non-admin owns a post granted to the caller;
\* an admin's unfiltered list holds every page; and each listed page's post,
\* comment, reaction and sentiment statistics count exactly the rows of the
\* page's posts the caller can access.
C27_PageStatsOnlyAccessiblePosts ==
    last.op = "ListPages" =>
        /\ \A row \in last.res.data :
              /\ ~IsAdmin(last.caller) => AccessiblePostsOfPage(last.caller, row.id) # {}
              /\ last.options.includePostStats =>
                    LET P == AccessiblePostsOfPage(last.caller, row.id)
                    IN /\ row.post_count = Cardinality(P)
                       /\ row.comment_count =
                             Cardinality({c \in DOMAIN comments : comments[c].post_id \in P})
                       /\ row.reaction_count =
                             Cardinality({r \in DOMAIN reactions : reactions[r].post_id \in P})
                       /\ row.sentiment_summary.total =
                             Cardinality({x \in DOMAIN sentiments :
                                             sentiments[x].post_id \in P})
        /\ (IsAdmin(last.caller) /\ last.options.sentiment = NULL) =>
              {row.id : row \in last.res.data} = DOMAIN pages

\* u1 holds p1 but not p2: page g1 is listed with the counts of p1 alone.
C27_Witness ==
    /\ last.op = "ListPages" /\ last.caller = "u1" /\ last.options.includePostStats
    /\ HasGrant("u1", "p1") /\ ~HasGrant("u1", "p2")
    /\ \E row \in last.res.data : row.id = "g1" /\ row.post_count = 1

\* A logout of the token has completed.
LoggedOut(token) == last.op = "logout" /\ last.token = token /\ last.res.status = 200

\* authenticateToken let a request with the token through.
Accepted(token) == last.op = "me" /\ last.token = token /\ last.user # NULL

\* C28: once logout(token) has completed, a later request carrying the token
\* is rejected by authenticateToken: no step that follows the logout leaves
\* the token acceptable to AuthService.verifyToken; and a request is accepted
\* only while a session row for its token exists whose expires_at is in the
\* future.
C28_LogoutInvalidatesToken ==
    /\ [][\A token \in SessionTokens \ {NULL} :
             LoggedOut(token) => (AuthService_verifyToken(token) = {})']_vars
    /\ [](\A token \in SessionTokens :
             Accepted(token) =>
                \E row \in sessions : row.token = token /\ row.expires_at > clock)

\* C29: the list path and the get-by-id path apply the same rule: for every
\* caller and every Post, Comment and Sentiment row, the row appears exactly
\* once in the caller's unfiltered findAllWithAccess result if and only if
\* findByIdWithAccess of its id returns a row for the caller.
C29_ListAgreesWithGetById ==
    \A caller \in Readers :
        /\ \A p \in DOMAIN posts :
              (PostRepository_findAllWithAccess(caller, RoleOf(caller))[p] = 1)
                 <=> (PostRepository_findByIdWithAccess(p, caller, RoleOf(caller)) # {})
        /\ \A c \in DOMAIN comments :
              (CommentRepository_findAllWithAccess(caller, RoleOf(caller), NULL)[c] = 1)
                 <=> (CommentRepository_findByIdWithAccess(c, caller, RoleOf(caller)) # {})
        /\ \A x \in DOMAIN sentiments :
              (SentimentRepository_findAllWithAccess(caller, RoleOf(caller))[x] = 1)
                 <=> (SentimentRepository_findByIdWithAccess(x, caller, RoleOf(caller)) # {})

\* C30: a single grant creates or updates the row of (user, post), and no
\* other row, only if the auth user and the post both exist; otherwise it
\* fails with 'User not found' when the user is missing, with 'Post not found'
\* when only the post is missing, and the grant store stays as it was.
C30_GrantValidatesUserThenPost ==
    [][(last'.op = "grant" /\ (last' # last \/ user_post_access' # user_post_access)) =>
          LET u == last'.user
              p == last'.id
              others(upa) == {g \in upa : ~(g.auth_user_id = u /\ g.post_id = p)}
          IN IF u \notin DOMAIN auth_users
             THEN /\ last'.res.error = "User not found"
                  /\ user_post_access' = user_post_access
             ELSE IF p \notin DOMAIN posts
             THEN /\ last'.res.error = "Post not found"
                  /\ user_post_access' = user_post_access
             ELSE /\ last'.res.error = NULL
                  /\ \E g \in user_post_access' :
                        g.auth_user_id = u /\ g.post_id = p /\ g.granted_by = last'.caller
                  /\ others(user_post_access') = others(user_post_access)]_vars

\* A grant naming a missing user and a missing post failed on the user,
\* while grants are in the store.
C30_Witness ==
    /\ last.op = "grant" /\ last.user = "u9" /\ last.id = "p3"
    /\ last.res.error = "User not found"
    /\ user_post_access # {}

====
